---- MODULE Spec2Model ----
(***************************************************************************)
(* Resonance Touch Interface: the RTI orchestrator (src/src/core/utils.ts, *)
(* class RTI).  The state is the orchestrator's fields; every action is    *)
(* one handler, or one continuation of an async handler between two        *)
(* awaits.  The hardware core, the emotion decoder and the resonance       *)
(* engine are external: their results, failures and events are inputs.     *)
(* A subscriber called by emit() may throw, which emit() rethrows.         *)
(* With it: the configuration utilities and the retry helper of RTIUtils   *)
(* (same file) and the profile store GenesisProfile                        *)
(* (src/src/core/constants.ts).                                            *)
(***************************************************************************)
EXTENDS Integers, Sequences, FiniteSets, TLC

\* ---------------------------------------------------------------- bounds
MaxSamples == 2
MaxPushes == 102
MaxInits == 2
MaxDestroys == 1
FreeHead == 2
FullSamples == 1
MaxRetries == 3
MaxPatterns == 3
MaxTime == 1
MaxStore == 2
MaxPending == 1
MaxAdjustments == 2
MaxResonances == 3

\* ------------------------------------------------------ program constants
WindowSize == 100
NumComponents == 4

Latencies == {1, 3}
Confidences == {5, 9}
Modes == {"creation", "alteration", "destruction", "blessing"}

CriticalErrors == {"HARDWARE_NOT_SUPPORTED", "EMOTION_DECODER_ERROR", "RESONANCE_ENGINE_ERROR"}
HighErrors == {"SENSOR_DISCONNECTED", "LATENCY_EXCEEDED", "MEMORY_LIMIT_EXCEEDED"}
\* the error codes and how they are spelled: the codes of ERROR_CODES, the
\* codes the orchestrator itself gives to handleError, and codes of a
\* component's own, with and without the text PERFORMANCE, the empty one
\* among them
Spelling ==
  ("HARDWARE_NOT_SUPPORTED" :>
     <<"H", "A", "R", "D", "W", "A", "R", "E", "_", "N", "O", "T", "_", "S", "U", "P", "P", "O", "R", "T", "E", "D">>) @@
  ("SENSOR_DISCONNECTED" :>
     <<"S", "E", "N", "S", "O", "R", "_", "D", "I", "S", "C", "O", "N", "N", "E", "C", "T", "E", "D">>) @@
  ("PRESSURE_SENSOR_ERROR" :>
     <<"P", "R", "E", "S", "S", "U", "R", "E", "_", "S", "E", "N", "S", "O", "R", "_", "E", "R", "R", "O", "R">>) @@
  ("THERMAL_SENSOR_ERROR" :>
     <<"T", "H", "E", "R", "M", "A", "L", "_", "S", "E", "N", "S", "O", "R", "_", "E", "R", "R", "O", "R">>) @@
  ("EMOTION_DECODER_ERROR" :>
     <<"E", "M", "O", "T", "I", "O", "N", "_", "D", "E", "C", "O", "D", "E", "R", "_", "E", "R", "R", "O", "R">>) @@
  ("RESONANCE_ENGINE_ERROR" :>
     <<"R", "E", "S", "O", "N", "A", "N", "C", "E", "_", "E", "N", "G", "I", "N", "E", "_", "E", "R", "R", "O", "R">>) @@
  ("DIMENSIONAL_TRANSLATOR_ERROR" :>
     <<"D", "I", "M", "E", "N", "S", "I", "O", "N", "A", "L", "_", "T", "R", "A", "N", "S", "L", "A", "T", "O", "R", "_", "E", "R", "R", "O", "R">>) @@
  ("INVALID_CONFIG" :>
     <<"I", "N", "V", "A", "L", "I", "D", "_", "C", "O", "N", "F", "I", "G">>) @@
  ("MISSING_REQUIRED_SENSOR" :>
     <<"M", "I", "S", "S", "I", "N", "G", "_", "R", "E", "Q", "U", "I", "R", "E", "D", "_", "S", "E", "N", "S", "O", "R">>) @@
  ("INVALID_SAMPLING_RATE" :>
     <<"I", "N", "V", "A", "L", "I", "D", "_", "S", "A", "M", "P", "L", "I", "N", "G", "_", "R", "A", "T", "E">>) @@
  ("LATENCY_EXCEEDED" :>
     <<"L", "A", "T", "E", "N", "C", "Y", "_", "E", "X", "C", "E", "E", "D", "E", "D">>) @@
  ("MEMORY_LIMIT_EXCEEDED" :>
     <<"M", "E", "M", "O", "R", "Y", "_", "L", "I", "M", "I", "T", "_", "E", "X", "C", "E", "E", "D", "E", "D">>) @@
  ("CPU_LIMIT_EXCEEDED" :>
     <<"C", "P", "U", "_", "L", "I", "M", "I", "T", "_", "E", "X", "C", "E", "E", "D", "E", "D">>) @@
  ("ENCRYPTION_FAILED" :>
     <<"E", "N", "C", "R", "Y", "P", "T", "I", "O", "N", "_", "F", "A", "I", "L", "E", "D">>) @@
  ("DATA_ACCESS_DENIED" :>
     <<"D", "A", "T", "A", "_", "A", "C", "C", "E", "S", "S", "_", "D", "E", "N", "I", "E", "D">>) @@
  ("PRIVACY_VIOLATION" :>
     <<"P", "R", "I", "V", "A", "C", "Y", "_", "V", "I", "O", "L", "A", "T", "I", "O", "N">>) @@
  ("INITIALIZATION_ERROR" :>
     <<"I", "N", "I", "T", "I", "A", "L", "I", "Z", "A", "T", "I", "O", "N", "_", "E", "R", "R", "O", "R">>) @@
  ("DESTROY_ERROR" :>
     <<"D", "E", "S", "T", "R", "O", "Y", "_", "E", "R", "R", "O", "R">>) @@
  ("TOUCH_PROCESSING_ERROR" :>
     <<"T", "O", "U", "C", "H", "_", "P", "R", "O", "C", "E", "S", "S", "I", "N", "G", "_", "E", "R", "R", "O", "R">>) @@
  ("EMOTION_PROCESSING_ERROR" :>
     <<"E", "M", "O", "T", "I", "O", "N", "_", "P", "R", "O", "C", "E", "S", "S", "I", "N", "G", "_", "E", "R", "R", "O", "R">>) @@
  ("RESONANCE_PROCESSING_ERROR" :>
     <<"R", "E", "S", "O", "N", "A", "N", "C", "E", "_", "P", "R", "O", "C", "E", "S", "S", "I", "N", "G", "_", "E", "R", "R", "O", "R">>) @@
  ("PERFORMANCE_DEGRADED" :>
     <<"P", "E", "R", "F", "O", "R", "M", "A", "N", "C", "E", "_", "D", "E", "G", "R", "A", "D", "E", "D">>) @@
  ("LOW_PERFORMANCE" :>
     <<"L", "O", "W", "_", "P", "E", "R", "F", "O", "R", "M", "A", "N", "C", "E">>) @@
  ("PERFORMANCE" :>
     <<"P", "E", "R", "F", "O", "R", "M", "A", "N", "C", "E">>) @@
  ("performance_degraded" :>
     <<"p", "e", "r", "f", "o", "r", "m", "a", "n", "c", "e", "_", "d", "e", "g", "r", "a", "d", "e", "d">>) @@
  ("PERFORM_ANCE" :>
     <<"P", "E", "R", "F", "O", "R", "M", "_", "A", "N", "C", "E">>) @@
  ("" :>
     <<>>)

\* text.includes(part)
Includes(text, part) ==
  \E i \in 0..(Len(text) - Len(part)) : SubSeq(text, i + 1, i + Len(part)) = part

\* the codes for which code.includes('PERFORMANCE') holds
PerformanceCodes ==
  {code \in DOMAIN Spelling :
     Includes(Spelling[code], <<"P", "E", "R", "F", "O", "R", "M", "A", "N", "C", "E">>)}
\* the codes components report in this model: one of each severity
ComponentCodes == {"HARDWARE_NOT_SUPPORTED", "SENSOR_DISCONNECTED",
                   "PERFORMANCE_DEGRADED", "PRESSURE_SENSOR_ERROR"}

VARIABLES
  status,               \* this.status.status
  initRuns,             \* runs of initializeComponents suspended at an await
  nextRun,              \* number of initializeComponents runs started so far
  destroyRuns,          \* calls of destroy() suspended at their awaits
  nDestroys,            \* number of destroy() calls so far
  samples,              \* samples in the pipeline, each with its stage
  totalTouches,         \* this.stats.totalTouches
  totalEmotions,        \* this.stats.totalEmotions
  totalResonances,      \* this.stats.totalResonances
  recognitionAccuracy,  \* this.stats.recognitionAccuracy, a fraction num/den
  latencySamples,       \* this.performanceMetrics.latencySamples
  perfAverage,          \* this.performanceMetrics.averageLatency, a fraction
  statusLatency,        \* this.status.performance.latency, a fraction
  statsAverageLatency,  \* this.stats.averageLatency, a fraction
  topModes,             \* this.stats.topModes
  pushed,               \* history: every latency given to updatePerformanceMetrics
  emitted,              \* history: per sample, the events emitted for it, in order
  subscribed,           \* a 'status_change' listener is registered on the RTI
  notified,             \* history: the status last delivered to that listener
  config,               \* this.config
  validated,            \* history: the argument of the last validateConfig
  validation,           \* history: what the last validateConfig returned
  retry,                \* the call of RTIUtils.retry in progress: parameters, locals, position
  fingerprint,          \* this.profile.emotionalFingerprint
  probe,                \* history: the argument of the last findMatchingPatterns
  matches,              \* history: what the last findMatchingPatterns returned
  profile,              \* this.profile, but for its emotionalFingerprint
  now,                  \* Date.now()
  saves,                \* calls of saveProfile suspended at storage.set, oldest first
  persisted,            \* what the storage backend holds under the profile's key
  lastEvent,            \* history: the event the profile emitted last
  returned,             \* history: the last query of the profile and its result
  loading,              \* the constructor's loadProfile suspended at storage.get, with
                        \* what get has read
  uuids,                \* the number of ids uuidv4() has given to patterns
  mapInput,             \* the sample given to the resonance mapper
  mapped,               \* history: what map returned for it
  components,           \* the component fields: 0 while the field is undefined, 1 when it
                        \* holds an instance created while the constructor ran, 2 when
                        \* it holds one created after that
  listeners,            \* the component instances that carry the orchestrator's listeners
  constructor,          \* where the constructor is, or how it ended
  monitor,              \* performanceMetrics.memoryUsage, status.performance.memoryUsage,
                        \* stats.sessionDuration, stats.uptime
  enableRequested,      \* history: setEnabled(true) took effect since the last disable
  op                    \* history: the handler that produced this state

vars == <<status, initRuns, nextRun, destroyRuns, nDestroys, samples, totalTouches,
          totalEmotions, totalResonances, recognitionAccuracy, latencySamples,
          perfAverage, statusLatency, statsAverageLatency, topModes, pushed,
          emitted, subscribed, notified, config, validated, validation, retry,
          fingerprint, probe, matches, profile, now, saves, persisted, lastEvent,
          returned, loading, uuids, mapInput, mapped, components, listeners, constructor, monitor,
          enableRequested, op>>

lifecycleVars == <<status, initRuns, nextRun, destroyRuns, nDestroys, enableRequested,
                   components>>
pipelineVars == <<samples, totalTouches, totalEmotions, totalResonances,
                  recognitionAccuracy, latencySamples, perfAverage, statusLatency,
                  statsAverageLatency, topModes, pushed, emitted>>
configVars == <<config, validated, validation>>
storeVars == <<profile, now, saves, persisted, lastEvent, returned>>
mapperVars == <<mapInput, mapped>>
otherVars == <<monitor, listeners, constructor, loading, uuids>>
utilityVars == <<retry, fingerprint, probe, matches, storeVars, mapperVars, otherVars>>
perfVars == <<latencySamples, perfAverage, statusLatency, statsAverageLatency, pushed>>

Zero == [num |-> 0, den |-> 1]
Op(name, arg) == [name |-> name, arg |-> arg]

\* ------------------------------------------------------------ pure parts

RECURSIVE SumSeq(_)
SumSeq(s) == IF s = <<>> THEN 0 ELSE Head(s) + SumSeq(Tail(s))

\* a slip: the window is never trimmed
PushLatencyNoEvict(window, latency) == Append(window, latency)

\* latencySamples.push(latency); if (length > 100) latencySamples.shift()
PushLatency(window, latency) ==
  LET w == Append(window, latency)
  IN IF Len(w) > WindowSize THEN Tail(w) ELSE w

\* latencySamples.reduce((a, b) => a + b, 0) / latencySamples.length
AverageOf(window) == [num |-> SumSeq(window), den |-> Len(window)]

\* a slip: the codes of the category "Performance Errors" are taken for the
\* codes that contain PERFORMANCE
DetermineErrorSeverityByCategory(code) ==
  IF code \in CriticalErrors THEN "critical"
  ELSE IF code \in HighErrors THEN "high"
  ELSE IF code = "CPU_LIMIT_EXCEEDED" THEN "medium"
  ELSE "low"

\* determineErrorSeverity(code)
DetermineErrorSeverity(code) ==
  IF code \in CriticalErrors THEN "critical"
  ELSE IF code \in HighErrors THEN "high"
  ELSE IF code \in PerformanceCodes THEN "medium"
  ELSE "low"

\* handleError: the status after it.  emitOk is FALSE when emit('error', ...)
\* throws (no 'error' listener is registered, or a listener throws): the
\* status update after it is then skipped.
HandleError(code, emitOk) ==
  IF emitOk /\ DetermineErrorSeverity(code) = "critical" THEN "error" ELSE status

\* updateStatus(newStatus): what the 'status_change' listener has last been
\* told once it has run
UpdateStatus(newStatus) == IF subscribed THEN newStatus ELSE notified

\* handleError: what the 'status_change' listener has last been told after it
NotifyError(code, emitOk) ==
  IF emitOk /\ DetermineErrorSeverity(code) = "critical" THEN UpdateStatus("error")
  ELSE notified

\* a slip: the event is put ahead of what was emitted for the sample before
EmitForFirst(log, id, event) ==
  IF id > Len(log) THEN Append(log, <<event>>)
  ELSE [log EXCEPT ![id] = <<event>> \o @]

\* this.emit(event, ...) for sample id: the event follows what has been
\* emitted for that sample so far; a new sample opens a new entry
EmitFor(log, id, event) ==
  IF id > Len(log) THEN Append(log, <<event>>)
  ELSE [log EXCEPT ![id] = Append(@, event)]

\* ------------------------------------------------ mode-usage statistics

RECURSIVE SumCounts(_)
SumCounts(table) == IF table = <<>> THEN 0 ELSE Head(table).count + SumCounts(Tail(table))

\* where entry e goes in a table already ordered by count descending: after
\* every entry whose count is at least e's (Array.prototype.sort is stable)
RECURSIVE InsertByCount(_, _)
InsertByCount(sorted, e) ==
  IF sorted = <<>> THEN <<e>>
  ELSE IF Head(sorted).count >= e.count THEN <<Head(sorted)>> \o InsertByCount(Tail(sorted), e)
  ELSE <<e>> \o sorted

\* topModes.sort((a, b) => b.count - a.count)
RECURSIVE SortByCount(_)
SortByCount(table) ==
  IF table = <<>> THEN <<>>
  ELSE InsertByCount(SortByCount(SubSeq(table, 1, Len(table) - 1)), table[Len(table)])

\* the find / count++ / push of updateModeStatistics
CountMode(table, mode) ==
  IF \E i \in 1..Len(table) : table[i].mode = mode
  THEN [i \in 1..Len(table) |->
          IF table[i].mode = mode THEN [table[i] EXCEPT !.count = @ + 1] ELSE table[i]]
  ELSE Append(table, [mode |-> mode, count |-> 1, percentage |-> Zero])

\* a slip: only the entry of the reported mode gets its percentage recomputed
UpdateModeStatisticsOnlyOne(table, mode) ==
  LET counted == CountMode(table, mode)
      total == SumCounts(counted)
  IN SortByCount([i \in 1..Len(counted) |->
       IF counted[i].mode = mode
       THEN [counted[i] EXCEPT !.percentage = [num |-> counted[i].count * 100, den |-> total]]
       ELSE counted[i]])

\* a slip: the table is left in the order of first use
UpdateModeStatisticsUnsorted(table, mode) ==
  LET counted == CountMode(table, mode)
      total == SumCounts(counted)
  IN [i \in 1..Len(counted) |->
       [counted[i] EXCEPT !.percentage = [num |-> counted[i].count * 100, den |-> total]]]

\* updateModeStatistics(mode): count, recompute every percentage over the new
\* total, sort by count descending
UpdateModeStatistics(table, mode) ==
  LET counted == CountMode(table, mode)
      total == SumCounts(counted)
  IN SortByCount([i \in 1..Len(counted) |->
       [counted[i] EXCEPT !.percentage = [num |-> counted[i].count * 100, den |-> total]]])

\* updateRecognitionAccuracy: (1 - alpha) * accuracy + alpha * confidence with
\* alpha = 0.1; confidence is given in tenths, the accuracy is a fraction
UpdateRecognitionAccuracy(acc, confidence) ==
  [num |-> 90 * acc.num + confidence * acc.den, den |-> 100 * acc.den]

\* ---------------------------------------------------------- configuration

\* PERFORMANCE_LIMITS; thresholds and sensitivities are in hundredths
MAX_LATENCY_MS == 10
MIN_SAMPLING_RATE_HZ == 100
MAX_SAMPLING_RATE_HZ == 2000
MAX_MEMORY_USAGE_MB == 100
MIN_CONFIDENCE_THRESHOLD == 50
MAX_CONFIDENCE_THRESHOLD == 95

\* DEFAULT_CONFIG, the fields validateConfig reads
DEFAULT_CONFIG ==
  [hardware |-> [pressureSensitivity |-> 50, samplingRate |-> 1000],
   software |-> [confidenceThreshold |-> 70],
   performance |-> [maxLatency |-> 10, memoryLimit |-> 50]]

SamplingRates == {50, 100, 3000}
PressureSensitivities == {-10, 50, 110}
ConfidenceThresholds == {40, 95, 99}
MaxLatencies == {10, 20}
MemoryLimits == {100, 200}

\* the sections a Partial<RTIConfig> may carry, whole or with one field only
HardwareSections ==
  {[samplingRate |-> r, pressureSensitivity |-> p] :
     r \in SamplingRates, p \in PressureSensitivities}
  \cup {[samplingRate |-> r] : r \in SamplingRates}
SoftwareSections == {[confidenceThreshold |-> t] : t \in ConfidenceThresholds}
PerformanceSections ==
  {[maxLatency |-> l, memoryLimit |-> m] : l \in MaxLatencies, m \in MemoryLimits}
  \cup {[memoryLimit |-> m] : m \in MemoryLimits}

\* a Partial<RTIConfig> with the given sections; each argument is empty (the
\* section is absent) or holds the section
Override(h, s, p) ==
  LET given == [hardware |-> h, software |-> s, performance |-> p]
  IN [k \in {x \in DOMAIN given : given[x] # {}} |-> CHOOSE v \in given[k] : TRUE]

Optional(S) == {{}} \cup {{x} : x \in S}

ConfigUpdates ==
  {Override(h, s, p) : h \in Optional(HardwareSections),
                       s \in Optional(SoftwareSections),
                       p \in Optional(PerformanceSections)}

\* the updates offered while the lifecycle is explored: none, and the default
\* hardware section again
LifecycleUpdates == {Override({}, {}, {}), Override({DEFAULT_CONFIG.hardware}, {}, {})}

\* { ...base, ...override } on one section
MergeSection(base, override) ==
  [k \in DOMAIN base \cup DOMAIN override |->
     IF k \in DOMAIN override THEN override[k] ELSE base[k]]

\* RTIUtils.mergeConfig(base, override)
MergeConfig(base, override) ==
  [k \in DOMAIN base |->
     IF k \in DOMAIN override THEN MergeSection(base[k], override[k]) ELSE base[k]]

\* the full configurations given to validateConfig
Configs == {MergeConfig(DEFAULT_CONFIG, o) : o \in ConfigUpdates}

\* if (violated) errors.push(message)
PushIf(errors, violated, message) == IF violated THEN Append(errors, message) ELSE errors

\* a slip: the checks are chained with else, only the first violation is reported
ValidateConfigFirstOnly(c) ==
  LET errors ==
        IF c.hardware.samplingRate < MIN_SAMPLING_RATE_HZ THEN <<"samplingRate min">>
        ELSE IF c.hardware.samplingRate > MAX_SAMPLING_RATE_HZ THEN <<"samplingRate max">>
        ELSE IF c.hardware.pressureSensitivity < 0 \/ c.hardware.pressureSensitivity > 100
          THEN <<"pressureSensitivity range">>
        ELSE IF c.software.confidenceThreshold < MIN_CONFIDENCE_THRESHOLD
          THEN <<"confidenceThreshold min">>
        ELSE IF c.software.confidenceThreshold > MAX_CONFIDENCE_THRESHOLD
          THEN <<"confidenceThreshold max">>
        ELSE IF c.performance.maxLatency > MAX_LATENCY_MS THEN <<"maxLatency max">>
        ELSE IF c.performance.memoryLimit > MAX_MEMORY_USAGE_MB THEN <<"memoryLimit max">>
        ELSE <<>>
  IN [valid |-> Len(errors) = 0, errors |-> errors]

\* RTIUtils.validateConfig(config); a message is named by its check
ValidateConfig(c) ==
  LET e1 == PushIf(<<>>, c.hardware.samplingRate < MIN_SAMPLING_RATE_HZ, "samplingRate min")
      e2 == PushIf(e1, c.hardware.samplingRate > MAX_SAMPLING_RATE_HZ, "samplingRate max")
      e3 == PushIf(e2, c.hardware.pressureSensitivity < 0
                         \/ c.hardware.pressureSensitivity > 100,
                   "pressureSensitivity range")
      e4 == PushIf(e3, c.software.confidenceThreshold < MIN_CONFIDENCE_THRESHOLD,
                   "confidenceThreshold min")
      e5 == PushIf(e4, c.software.confidenceThreshold > MAX_CONFIDENCE_THRESHOLD,
                   "confidenceThreshold max")
      e6 == PushIf(e5, c.performance.maxLatency > MAX_LATENCY_MS, "maxLatency max")
      errors == PushIf(e6, c.performance.memoryLimit > MAX_MEMORY_USAGE_MB, "memoryLimit max")
  IN [valid |-> Len(errors) = 0, errors |-> errors]

\* ----------------------------------------------------------------- retry

BaseDelays == {1, 2, 500, 1000}

NoRetry ==
  [pc |-> "idle", maxRetries |-> 0, baseDelay |-> 0, attempt |-> 0, calls |-> 0,
   waits |-> <<>>]

\* a slip: the delay grows linearly
DelayLinear(baseDelay, attempt) == baseDelay * (attempt + 1)

\* baseDelay * Math.pow(2, attempt)
Delay(baseDelay, attempt) == baseDelay * 2^attempt

\* --------------------------------------------------------- GenesisProfile

\* the proximity bound 0.2 of findMatchingPatterns; intensities, sensitivities,
\* signatures and confidences are in tenths
Epsilon == 2

Primaries == {"love", "anger"}
PatternSensitivities == {3, 5}
PatternConfidences == {5, 9}

\* the patterns given to addEmotionalPattern: intensity range [0.2, 0.6],
\* thermal signature 0.5
PatternInputs ==
  {[characteristics |-> [primary |-> e, intensityRange |-> <<2, 6>>,
                         pressureSensitivity |-> s, thermalSignature |-> 5],
    confidence |-> c, lastObserved |-> 0] :
     e \in Primaries, s \in PatternSensitivities, c \in PatternConfidences}

\* the characteristics probed: intensities below, on both ends of and above
\* the range; pressures and thermal values nearer than 0.2 and at 0.2
Probes ==
  [primary : {"love"}, intensity : {1, 2, 6, 7}, pressure : {4, 5}, thermal : {6, 7}]

NoProbe == [primary |-> "", intensity |-> 0, pressure |-> 0, thermal |-> 0]

Abs(x) == IF x < 0 THEN -x ELSE x

\* a slip: a difference of exactly 0.2 still matches
MatchesWithin(pattern, characteristics) ==
  /\ pattern.characteristics.primary = characteristics.primary
  /\ characteristics.intensity >= pattern.characteristics.intensityRange[1]
  /\ characteristics.intensity <= pattern.characteristics.intensityRange[2]
  /\ Abs(pattern.characteristics.pressureSensitivity - characteristics.pressure) <= Epsilon
  /\ Abs(pattern.characteristics.thermalSignature - characteristics.thermal) <= Epsilon

\* the filter callback of findMatchingPatterns
Matches(pattern, characteristics) ==
  /\ pattern.characteristics.primary = characteristics.primary
  /\ characteristics.intensity >= pattern.characteristics.intensityRange[1]
  /\ characteristics.intensity <= pattern.characteristics.intensityRange[2]
  /\ Abs(pattern.characteristics.pressureSensitivity - characteristics.pressure) < Epsilon
  /\ Abs(pattern.characteristics.thermalSignature - characteristics.thermal) < Epsilon

\* a slip: a pattern goes ahead of the patterns of equal confidence
RECURSIVE InsertByConfidenceUnstable(_, _)
InsertByConfidenceUnstable(sorted, p) ==
  IF sorted = <<>> THEN <<p>>
  ELSE IF Head(sorted).confidence > p.confidence
  THEN <<Head(sorted)>> \o InsertByConfidenceUnstable(Tail(sorted), p)
  ELSE <<p>> \o sorted

\* where pattern p goes in a list already ordered by confidence descending:
\* after every pattern whose confidence is at least p's (the sort is stable)
RECURSIVE InsertByConfidence(_, _)
InsertByConfidence(sorted, p) ==
  IF sorted = <<>> THEN <<p>>
  ELSE IF Head(sorted).confidence >= p.confidence
  THEN <<Head(sorted)>> \o InsertByConfidence(Tail(sorted), p)
  ELSE <<p>> \o sorted

\* .sort((a, b) => b.confidence - a.confidence)
RECURSIVE SortByConfidence(_)
SortByConfidence(list) ==
  IF list = <<>> THEN <<>>
  ELSE InsertByConfidence(SortByConfidence(SubSeq(list, 1, Len(list) - 1)),
                          list[Len(list)])

\* findMatchingPatterns(characteristics) on the stored patterns
FindMatching(stored, characteristics) ==
  SortByConfidence(SelectSeq(stored, LAMBDA p : Matches(p, characteristics)))

\* the probe of getPersonalizedResonance: intensity, pressure and thermal 0.5
DefaultProbe(emotion) ==
  [primary |-> emotion, intensity |-> 5, pressure |-> 5, thermal |-> 5]

\* topPattern.characteristics.pulseCorrelation || 0.5: an absent correlation
\* and a correlation of 0 are both falsy
PulseOf(pattern) ==
  IF "pulseCorrelation" \in DOMAIN pattern.characteristics
     /\ pattern.characteristics.pulseCorrelation # 0
  THEN pattern.characteristics.pulseCorrelation
  ELSE 5

\* getPersonalizedResonance(emotion) on the stored patterns and preferences
PersonalizedResonance(patterns, preferences, emotion) ==
  LET found == FindMatching(patterns, DefaultProbe(emotion))
  IN IF Len(found) = 0
     THEN preferences
     ELSE LET topPattern == found[1]
          IN [sensitivity |->
                [pressure |-> topPattern.characteristics.pressureSensitivity,
                 thermal |-> topPattern.characteristics.thermalSignature,
                 pulse |-> PulseOf(topPattern)],
              responseSpeed |-> IF topPattern.confidence > 8 THEN "fast" ELSE "normal"]

\* ----------------------------------------------------- the profile record

\* the user the profile is constructed for
UserId == "u1"

\* {...base, ...over}
Overlay(base, over) ==
  [k \in DOMAIN base \cup DOMAIN over |-> IF k \in DOMAIN over THEN over[k] ELSE base[k]]

\* createDefaultProfile(userId) at time t; rates, accuracies and
\* sensitivities are in tenths
CreateDefaultProfile(userId, t) ==
  [userId |-> userId,
   displayName |-> "User_" \o userId,
   emotionalFingerprint |-> <<>>,
   resonancePreferences |->
     [preferredModes |-> <<"creation", "alteration">>,
      formPreferences |-> <<"organic", "fluid">>,
      sensitivity |-> [pressure |-> 5, thermal |-> 5, pulse |-> 5],
      responseSpeed |-> "normal",
      hapticFeedback |-> TRUE],
   privacySettings |->
     [localProcessingOnly |-> TRUE, encryptData |-> TRUE, retentionDays |-> 30,
      allowAnonymousSharing |-> FALSE, sharePatterns |-> FALSE,
      sharePreferences |-> FALSE],
   learningData |->
     [learningRate |-> 1, accuracy |-> 0, trainingSamples |-> 0,
      lastTraining |-> t, adjustments |-> <<>>],
   createdAt |-> t,
   updatedAt |-> t,
   version |-> "1.0.0"]

\* a profile without its emotionalFingerprint, which is variable fingerprint
Rest(whole) == [k \in DOMAIN whole \ {"emotionalFingerprint"} |-> whole[k]]

\* this.profile
WholeProfile == Overlay(profile, [emotionalFingerprint |-> fingerprint])

\* what saveProfile hands to storage.set: JSON.stringify(profile), through
\* btoa when privacySettings.encryptData is set
Serialize(whole) ==
  [format |-> IF whole.privacySettings.encryptData THEN "base64" ELSE "json",
   body |-> whole]

NoBlob == [format |-> "none", body |-> <<>>]

\* what loadProfile makes of a stored blob: decryptProfile(stored), that is
\* JSON.parse(atob(stored)), when privacySettings.encryptData is set, and
\* JSON.parse(stored) when it is not; atob throws on the text of a JSON
\* object, JSON.parse on base64 text
Deserialize(encryptData, stored) ==
  IF stored.format = (IF encryptData THEN "base64" ELSE "json")
  THEN [ok |-> TRUE, value |-> stored.body]
  ELSE [ok |-> FALSE, value |-> <<>>]

\* no loadProfile is under way
NoLoad == [pending |-> FALSE, stored |-> NoBlob]

\* a slip: the pattern array is exported whatever the flags
ExportWithPatterns(whole, includePrivate) ==
  LET exported == [userId |-> whole.userId, displayName |-> whole.displayName,
                   version |-> whole.version, createdAt |-> whole.createdAt,
                   updatedAt |-> whole.updatedAt]
  IN Overlay(exported, [emotionalFingerprint |-> whole.emotionalFingerprint])

\* exportProfile(includePrivate)
Export(whole, includePrivate) ==
  LET exported == [userId |-> whole.userId, displayName |-> whole.displayName,
                   version |-> whole.version, createdAt |-> whole.createdAt,
                   updatedAt |-> whole.updatedAt]
      withPatterns ==
        IF includePrivate \/ whole.privacySettings.sharePatterns
        THEN Overlay(exported, [emotionalFingerprint |-> whole.emotionalFingerprint])
        ELSE exported
      withPreferences ==
        IF includePrivate \/ whole.privacySettings.sharePreferences
        THEN Overlay(withPatterns, [resonancePreferences |-> whole.resonancePreferences])
        ELSE withPatterns
  IN IF includePrivate
     THEN Overlay(withPreferences, [privacySettings |-> whole.privacySettings,
                                    learningData |-> whole.learningData])
     ELSE withPreferences

\* a slip: the identity carried by the data is taken over
ImportedKeepingData(whole, data, merge, t) ==
  IF merge
  THEN Overlay(whole, data)
  ELSE Overlay(CreateDefaultProfile(whole.userId, t), data)

\* the profile importProfile(data, merge) builds at time t
Imported(whole, data, merge, t) ==
  IF merge
  THEN Overlay(Overlay(whole, data),
               [userId |-> whole.userId, createdAt |-> whole.createdAt])
  ELSE Overlay(Overlay(CreateDefaultProfile(whole.userId, t), data),
               [userId |-> whole.userId])

\* findIndex(p => p.id === patternId): the first index, 0 when there is none
FindIndex(patterns, patternId) ==
  IF \E i \in 1..Len(patterns) : patterns[i].id = patternId
  THEN CHOOSE i \in 1..Len(patterns) :
         /\ patterns[i].id = patternId
         /\ \A j \in 1..(i - 1) : patterns[j].id # patternId
  ELSE 0

\* ------------------------------------------------------- Resonance Mapper
\* The tables are those of src/src/core/constants.ts; pressures and
\* thresholds are in hundredths.  The mapper that reads them belongs to the
\* resonance engine ('../resonance/ResonanceEngine'); what it does with them
\* is taken from its specification.

EMOTION_TYPES ==
  {"joy", "calm", "love", "excitement", "gratitude", "compassion",
   "focus", "determination", "concentration", "discipline",
   "anger", "frustration", "anxiety", "sadness", "fear",
   "curiosity", "wonder", "contemplation", "inspiration"}

\* a slip: the thresholds of LIGHT and MEDIUM the other way round
PRESSURE_THRESHOLDS_Unordered ==
  [VERY_LIGHT |-> 5, LIGHT |-> 50, MEDIUM |-> 20, HEAVY |-> 70, VERY_HEAVY |-> 90,
   MAXIMUM |-> 100]

PRESSURE_THRESHOLDS ==
  [VERY_LIGHT |-> 5, LIGHT |-> 20, MEDIUM |-> 50, HEAVY |-> 70, VERY_HEAVY |-> 90,
   MAXIMUM |-> 100]

\* a rule of the table: the emotions and the band its key names, and its action
Rule(emotions, band, mode, form, characteristics) ==
  [emotions |-> emotions, band |-> band,
   action |-> [mode |-> mode, form |-> form, characteristics |-> characteristics]]

\* a slip: love under a very light touch gives an organic form
RESONANCE_MAPPINGS_LoveOrganic ==
  <<Rule(<<"joy", "calm">>, "LIGHT", "creation", "organic",
         <<"flowing", "natural", "smooth">>),
    Rule(<<"love">>, "VERY_LIGHT", "creation", "organic",
         <<"gentle", "nurturing", "expanding">>),
    Rule(<<"focus", "determination">>, "MEDIUM", "alteration", "precise",
         <<"refined", "accurate", "controlled">>),
    Rule(<<"concentration">>, "MEDIUM", "alteration", "structured",
         <<"organized", "systematic", "ordered">>),
    Rule(<<"anger", "frustration">>, "HEAVY", "destruction", "geometric",
         <<"sharp", "fractured", "broken">>),
    Rule(<<"anxiety">>, "HEAVY", "destruction", "crystalline",
         <<"fragile", "shattered", "dispersed">>),
    Rule(<<"compassion">>, "VERY_LIGHT", "blessing", "ethereal",
         <<"glowing", "radiant", "transcendent">>),
    Rule(<<"gratitude">>, "LIGHT", "blessing", "glowing",
         <<"warm", "luminous", "harmonious">>)>>

\* the entries of RESONANCE_MAPPINGS in the order of their declaration; the
\* key `${a}_${b}_BAND` names the emotions a and b and the band
RESONANCE_MAPPINGS ==
  <<Rule(<<"joy", "calm">>, "LIGHT", "creation", "organic",
         <<"flowing", "natural", "smooth">>),
    Rule(<<"love">>, "VERY_LIGHT", "creation", "growing",
         <<"gentle", "nurturing", "expanding">>),
    Rule(<<"focus", "determination">>, "MEDIUM", "alteration", "precise",
         <<"refined", "accurate", "controlled">>),
    Rule(<<"concentration">>, "MEDIUM", "alteration", "structured",
         <<"organized", "systematic", "ordered">>),
    Rule(<<"anger", "frustration">>, "HEAVY", "destruction", "geometric",
         <<"sharp", "fractured", "broken">>),
    Rule(<<"anxiety">>, "HEAVY", "destruction", "crystalline",
         <<"fragile", "shattered", "dispersed">>),
    Rule(<<"compassion">>, "VERY_LIGHT", "blessing", "ethereal",
         <<"glowing", "radiant", "transcendent">>),
    Rule(<<"gratitude">>, "LIGHT", "blessing", "glowing",
         <<"warm", "luminous", "harmonious">>)>>

\* the named bands, lightest first
Bands == <<"VERY_LIGHT", "LIGHT", "MEDIUM", "HEAVY", "VERY_HEAVY">>

\* the threshold after a band's own: where the band ends
UpperThreshold(i) ==
  IF i < Len(Bands) THEN PRESSURE_THRESHOLDS[Bands[i + 1]] ELSE PRESSURE_THRESHOLDS.MAXIMUM

\* band i holds the pressures from its threshold up to the next threshold,
\* the next threshold not included; the heaviest band includes MAXIMUM
InBand(i, pressure) ==
  /\ PRESSURE_THRESHOLDS[Bands[i]] <= pressure
  /\ IF i < Len(Bands) THEN pressure < UpperThreshold(i) ELSE pressure <= UpperThreshold(i)

\* the names of the bands that hold the pressure
BandsOf(pressure) == {Bands[i] : i \in {j \in 1..Len(Bands) : InBand(j, pressure)}}

\* the neutral action returned when no rule matches
NeutralFallback ==
  [mode |-> "alteration", form |-> "structured", characteristics |-> <<>>]

NoAction == [mode |-> "", form |-> "", characteristics |-> <<>>]

\* a rule matches a state under a pressure: the pressure is in the rule's
\* band, the rule's first emotion is the primary one and its second emotion,
\* if it names one, the secondary one
RuleMatches(rule, emotionalState, pressure) ==
  /\ rule.band \in BandsOf(pressure)
  /\ rule.emotions[1] = emotionalState.primary
  /\ Len(rule.emotions) = 2 => rule.emotions[2] \in emotionalState.secondary

\* the rules in specificity order: those that name two emotions before those
\* that name one, in the order of the table otherwise
BySpecificity(rules) ==
  SelectSeq(rules, LAMBDA r : Len(r.emotions) = 2)
    \o SelectSeq(rules, LAMBDA r : Len(r.emotions) = 1)

\* a slip: no fallback, an undefined result when no rule matches
MapWithoutFallback(emotionalState, pressure) ==
  LET matching == SelectSeq(BySpecificity(RESONANCE_MAPPINGS),
                            LAMBDA r : RuleMatches(r, emotionalState, pressure))
  IN IF matching # <<>> THEN Head(matching).action ELSE NoAction

\* map(emotionalState, pressure): the action of the first rule that matches,
\* the neutral fallback when none does
Map(emotionalState, pressure) ==
  LET matching == SelectSeq(BySpecificity(RESONANCE_MAPPINGS),
                            LAMBDA r : RuleMatches(r, emotionalState, pressure))
  IN IF matching # <<>> THEN Head(matching).action ELSE NeutralFallback

\* the samples mapped: every emotion, alone or with a secondary emotion,
\* intensities 0.2 and 0.75, every pressure from 0 to 1 in steps of 0.01
Secondaries == {{}} \cup {{e} : e \in {"calm", "determination", "frustration"}}
Intensities == {20, 75}
Pressures == 0..100
MapInputs ==
  [emotionalState : [primary : EMOTION_TYPES, secondary : Secondaries,
                     intensity : Intensities],
   pressure : Pressures]

NoInput == [emotionalState |-> [primary |-> "", secondary |-> {}, intensity |-> 0],
            pressure |-> 0]

\* ------------------------------------------------------------------ Init

\* the state the constructor leaves: status Initializing, all counters zero,
\* and its call of initializeComponents suspended at the first await
Init ==
  /\ status = "initializing"
  /\ initRuns = {[id |-> 1, origin |-> "constructor", step |-> 1]}
  /\ nextRun = 1
  /\ destroyRuns = 0
  /\ nDestroys = 0
  /\ samples = {}
  /\ totalTouches = 0
  /\ totalEmotions = 0
  /\ totalResonances = 0
  /\ recognitionAccuracy = Zero
  /\ latencySamples = <<>>
  /\ perfAverage = Zero
  /\ statusLatency = Zero
  /\ statsAverageLatency = Zero
  /\ topModes = <<>>
  /\ pushed = <<>>
  /\ emitted = <<>>
  /\ subscribed = FALSE
  /\ notified = "none"
  /\ config = DEFAULT_CONFIG
  /\ validated = DEFAULT_CONFIG
  /\ validation = [valid |-> TRUE, errors |-> <<>>]
  /\ retry = NoRetry
  /\ fingerprint = <<>>
  /\ probe = NoProbe
  /\ matches = <<>>
  /\ profile = Rest(CreateDefaultProfile(UserId, 0))
  /\ now = 0
  /\ saves = <<>>
  /\ persisted = NoBlob
  /\ lastEvent = "none"
  /\ returned = [name |-> "none", arg |-> "", value |-> <<>>]
  /\ loading = [pending |-> TRUE, stored |-> NoBlob]
  /\ uuids = 0
  /\ mapInput = NoInput
  /\ mapped = NoAction
  /\ components = [forceTouchCore |-> 1, emotionDecoder |-> 0, resonanceEngine |-> 0,
                   dimensionalTranslator |-> 0]
  /\ listeners = {[component |-> "forceTouchCore", instance |-> 1, event |-> "touch"]}
  /\ constructor = "thrown"
  /\ monitor = [memoryUsage |-> 0, statusMemoryUsage |-> 0, sessionDuration |-> 0, uptime |-> 0]
  /\ enableRequested = FALSE
  /\ op = Op("constructor", "")

\* ------------------------------------------------------------- lifecycle

\* the component fields, in the order initializeComponents fills them
Components == <<"forceTouchCore", "emotionDecoder", "resonanceEngine", "dimensionalTranslator">>

\* new ForceTouchCore(...), new EmotionIntentDecoder(...), ...: what the field
\* holds after it
Created == IF constructor = "thrown" THEN 2 ELSE 1

\* the constructor is entered with a configuration: the fields are set, no
\* component exists yet, and initializeComponents is about to be called
Constructing ==
  /\ status = "initializing"
  /\ initRuns = {}
  /\ nextRun = 0
  /\ destroyRuns = 0
  /\ nDestroys = 0
  /\ samples = {}
  /\ totalTouches = 0
  /\ totalEmotions = 0
  /\ totalResonances = 0
  /\ recognitionAccuracy = Zero
  /\ latencySamples = <<>>
  /\ perfAverage = Zero
  /\ statusLatency = Zero
  /\ statsAverageLatency = Zero
  /\ topModes = <<>>
  /\ pushed = <<>>
  /\ emitted = <<>>
  /\ subscribed = FALSE
  /\ notified = "none"
  /\ config \in {MergeConfig(DEFAULT_CONFIG, n) : n \in ConfigUpdates}
  /\ validated = DEFAULT_CONFIG
  /\ validation = [valid |-> TRUE, errors |-> <<>>]
  /\ retry = NoRetry
  /\ fingerprint = <<>>
  /\ probe = NoProbe
  /\ matches = <<>>
  /\ profile = Rest(CreateDefaultProfile(UserId, 0))
  /\ now = 0
  /\ saves = <<>>
  /\ persisted = NoBlob
  /\ lastEvent = "none"
  /\ returned = [name |-> "none", arg |-> "", value |-> <<>>]
  /\ loading = [pending |-> TRUE, stored |-> NoBlob]
  /\ uuids = 0
  /\ mapInput = NoInput
  /\ mapped = NoAction
  /\ components = [forceTouchCore |-> 0, emotionDecoder |-> 0, resonanceEngine |-> 0,
                   dimensionalTranslator |-> 0]
  /\ listeners = {}
  /\ constructor = "initializeComponents"
  /\ monitor = [memoryUsage |-> 0, statusMemoryUsage |-> 0, sessionDuration |-> 0, uptime |-> 0]
  /\ enableRequested = FALSE
  /\ op = Op("new", "")

\* initializeComponents() up to its first await
StartInit(origin) ==
  /\ nextRun < MaxInits
  /\ nextRun' = nextRun + 1
  /\ initRuns' = initRuns \cup {[id |-> nextRun + 1, origin |-> origin, step |-> 1]}
  /\ components' = [components EXCEPT !.forceTouchCore = Created]

\* the constructor calls initializeComponents(), which returns at its first
\* await
ConstructorInitializes ==
  /\ constructor = "initializeComponents"
  /\ StartInit("constructor")
  /\ constructor' = "setupEventListeners"
  /\ op' = Op("initializeComponents", "constructor")
  /\ UNCHANGED <<status, destroyRuns, nDestroys, enableRequested>>
  /\ UNCHANGED pipelineVars
  /\ UNCHANGED <<subscribed, notified, configVars>>
  /\ UNCHANGED <<retry, fingerprint, probe, matches, storeVars, mapperVars, monitor, listeners,
                 loading, uuids>>

\* the component fields that hold an instance, as far as they do without a
\* gap from the first of the given ones on
Defined(fields) ==
  {i \in 1..Len(fields) : \A j \in 1..i : components[fields[j]] # 0}

\* the constructor calls setupEventListeners(): 'touch' on the hardware core,
\* 'emotion' on the decoder, 'resonance' on the engine, then 'error' on all
\* four; on() of a field that is undefined throws a TypeError, which ends
\* setupEventListeners and the constructor
SetupEventListeners ==
  LET own == <<"touch", "emotion", "resonance">>
      sources == SubSeq(Components, 1, Len(own))
      all == \A i \in 1..NumComponents : components[Components[i]] # 0
  IN /\ constructor = "setupEventListeners"
     /\ listeners' =
          {[component |-> sources[i], instance |-> components[sources[i]], event |-> own[i]] :
             i \in Defined(sources)}
          \cup (IF Defined(sources) = 1..Len(sources)
                THEN {[component |-> Components[i], instance |-> components[Components[i]],
                       event |-> "error"] : i \in Defined(Components)}
                ELSE {})
     /\ constructor' = IF all THEN "startPerformanceMonitoring" ELSE "thrown"
     /\ op' = Op("constructor", "")
     /\ UNCHANGED <<lifecycleVars, pipelineVars, subscribed, notified, configVars>>
     /\ UNCHANGED <<retry, fingerprint, probe, matches, storeVars, mapperVars, monitor>>
     /\ UNCHANGED <<loading, uuids>>

\* a component's initialize() resolves: the run goes on to the next component,
\* and after the last one calls updateStatus(READY)
InitializeResolves(r) ==
  /\ r \in initRuns
  /\ IF r.step < NumComponents
     THEN /\ initRuns' = (initRuns \ {r}) \cup {[r EXCEPT !.step = @ + 1]}
          /\ components' = [components EXCEPT ![Components[r.step + 1]] = Created]
          /\ status' = status
          /\ notified' = notified
          /\ op' = Op("initStep", r.origin)
     ELSE /\ initRuns' = initRuns \ {r}
          /\ components' = components
          /\ status' = "ready"
          /\ notified' = UpdateStatus("ready")
          /\ op' = Op("initDone", r.origin)
  /\ UNCHANGED <<nextRun, destroyRuns, nDestroys, enableRequested>>
  /\ UNCHANGED pipelineVars
  /\ UNCHANGED <<subscribed, configVars, utilityVars>>

\* a component's constructor or initialize() fails: the catch block calls
\* handleError('INITIALIZATION_ERROR', ...)
InitializeRejects(r, emitOk) ==
  /\ r \in initRuns
  /\ initRuns' = initRuns \ {r}
  /\ status' = HandleError("INITIALIZATION_ERROR", emitOk)
  /\ notified' = NotifyError("INITIALIZATION_ERROR", emitOk)
  /\ op' = Op("initFail", r.origin)
  /\ UNCHANGED <<nextRun, destroyRuns, nDestroys, enableRequested, components>>
  /\ UNCHANGED pipelineVars
  /\ UNCHANGED <<subscribed, configVars, utilityVars>>

\* a slip: setEnabled(true) re-initializes whatever the status is
SetEnabledAlwaysInit(enabled) ==
  /\ IF enabled
     THEN /\ StartInit("setEnabled")
          /\ status' = status
          /\ notified' = notified
          /\ enableRequested' = TRUE
     ELSE /\ status' = "disabled"
          /\ notified' = UpdateStatus("disabled")
          /\ enableRequested' = FALSE
          /\ UNCHANGED <<initRuns, nextRun, components>>
  /\ op' = Op("setEnabled", IF enabled THEN "true" ELSE "false")
  /\ UNCHANGED <<destroyRuns, nDestroys>>
  /\ UNCHANGED pipelineVars
  /\ UNCHANGED <<subscribed, configVars, utilityVars>>

\* setEnabled(enabled)
SetEnabled(enabled) ==
  /\ IF enabled /\ status = "disabled"
     THEN /\ StartInit("setEnabled")
          /\ status' = status
          /\ notified' = notified
          /\ enableRequested' = TRUE
     ELSE IF ~enabled
     THEN /\ status' = "disabled"
          /\ notified' = UpdateStatus("disabled")
          /\ enableRequested' = FALSE
          /\ UNCHANGED <<initRuns, nextRun, components>>
     ELSE UNCHANGED <<status, notified, initRuns, nextRun, enableRequested, components>>
  /\ op' = Op("setEnabled", IF enabled THEN "true" ELSE "false")
  /\ UNCHANGED <<destroyRuns, nDestroys>>
  /\ UNCHANGED pipelineVars
  /\ UNCHANGED <<subscribed, configVars, utilityVars>>

\* updateConfig(newConfig): the merge becomes the configuration; a hardware
\* or software section in newConfig starts initializeComponents
UpdateConfig(newConfig) ==
  LET reinit == "hardware" \in DOMAIN newConfig \/ "software" \in DOMAIN newConfig
  IN /\ config' = MergeConfig(config, newConfig)
     /\ IF reinit THEN StartInit("updateConfig") ELSE UNCHANGED <<initRuns, nextRun, components>>
     /\ op' = Op("updateConfig", IF reinit THEN "reinit" ELSE "")
     /\ UNCHANGED <<status, destroyRuns, nDestroys, enableRequested>>
     /\ UNCHANGED pipelineVars
     /\ UNCHANGED <<subscribed, notified, validated, validation, utilityVars>>

\* destroy() up to its first await
Destroy ==
  /\ nDestroys < MaxDestroys
  /\ nDestroys' = nDestroys + 1
  /\ destroyRuns' = destroyRuns + 1
  /\ op' = Op("destroy", "")
  /\ UNCHANGED <<status, initRuns, nextRun, enableRequested, components>>
  /\ UNCHANGED pipelineVars
  /\ UNCHANGED <<subscribed, notified, configVars, utilityVars>>

\* the components' destroy() calls have resolved: removeAllListeners(), then
\* updateStatus(DISABLED), whose event no listener is left to receive
DestroyResolves ==
  /\ destroyRuns > 0
  /\ destroyRuns' = destroyRuns - 1
  /\ subscribed' = FALSE
  /\ status' = "disabled"
  /\ notified' = IF subscribed' THEN "disabled" ELSE notified
  /\ enableRequested' = FALSE
  /\ op' = Op("destroyDone", "")
  /\ UNCHANGED <<initRuns, nextRun, nDestroys, components>>
  /\ UNCHANGED pipelineVars
  /\ UNCHANGED <<configVars, utilityVars>>

\* a component's destroy() fails: handleError('DESTROY_ERROR', ...)
DestroyRejects(emitOk) ==
  /\ destroyRuns > 0
  /\ destroyRuns' = destroyRuns - 1
  /\ status' = HandleError("DESTROY_ERROR", emitOk)
  /\ notified' = NotifyError("DESTROY_ERROR", emitOk)
  /\ op' = Op("destroyFail", "")
  /\ UNCHANGED <<initRuns, nextRun, nDestroys, enableRequested, components>>
  /\ UNCHANGED pipelineVars
  /\ UNCHANGED <<subscribed, configVars, utilityVars>>

\* a component emits 'error': the listener calls handleError(code, message, event)
ComponentError(code, emitOk) ==
  /\ status' = HandleError(code, emitOk)
  /\ notified' = NotifyError(code, emitOk)
  /\ op' = Op("componentError", DetermineErrorSeverity(code))
  /\ UNCHANGED <<initRuns, nextRun, destroyRuns, nDestroys, enableRequested, components>>
  /\ UNCHANGED pipelineVars
  /\ UNCHANGED <<subscribed, configVars, utilityVars>>

\* -------------------------------------------------------------- pipeline

Sample(id, stage) == [id |-> id, stage |-> stage]

\* how a handler's catch block ends: handleError returns, or its
\* emit('error', ...) throws and the exception leaves the handler
Caught(errEmitOk) == IF errEmitOk THEN "failed" ELSE "escaped"

\* the latencies measured for the n-th measurement: any of Latencies for the
\* first FreeHead measurements and from the WindowSize-th on, a fixed pattern
\* in between
LatencyInputs(n) ==
  IF n <= FreeHead \/ n >= WindowSize THEN Latencies ELSE {1 + (n % 3)}

\* handleTouchEvent(touchEvent) up to its await: count the touch, emit it,
\* hand it to emotionDecoder.processTouch.  emitOk is FALSE when a 'touch'
\* subscriber throws: the catch block reports TOUCH_PROCESSING_ERROR and the
\* sample is not classified.
HandleTouchEvent(limit, emitOk, errEmitOk) ==
  /\ totalTouches < limit
  /\ totalTouches' = totalTouches + 1
  /\ IF emitOk
     THEN /\ samples' = samples \cup {Sample(totalTouches + 1, "classify")}
          /\ status' = status
     ELSE /\ samples' = samples
          /\ status' = HandleError("TOUCH_PROCESSING_ERROR", errEmitOk)
  /\ notified' = IF emitOk THEN notified ELSE NotifyError("TOUCH_PROCESSING_ERROR", errEmitOk)
  /\ emitted' = EmitFor(emitted, totalTouches + 1, "touch")
  /\ op' = Op("touch", IF emitOk THEN "admitted" ELSE Caught(errEmitOk))
  /\ UNCHANGED <<initRuns, nextRun, destroyRuns, nDestroys, enableRequested, components>>
  /\ UNCHANGED <<totalEmotions, totalResonances, recognitionAccuracy, topModes>>
  /\ UNCHANGED perfVars
  /\ UNCHANGED <<subscribed, configVars, utilityVars>>

\* handleTouchEvent after processTouch has resolved: measure the latency,
\* updatePerformanceMetrics(latency), copy the average into the statistics.
\* perfEmitOk is FALSE when a 'performance_update' subscriber throws: the copy
\* is skipped and the catch block reports TOUCH_PROCESSING_ERROR.
\* emits: the decoder reports an emotion for this sample.
ClassifyResolves(s, latency, emits, perfEmitOk, errEmitOk) ==
  /\ s \in samples /\ s.stage = "classify"
  /\ latency \in LatencyInputs(Len(pushed) + 1)
  /\ pushed' = Append(pushed, latency)
  /\ latencySamples' = PushLatency(latencySamples, latency)
  /\ perfAverage' = AverageOf(latencySamples')
  /\ statusLatency' = perfAverage'
  /\ IF perfEmitOk
     THEN /\ statsAverageLatency' = perfAverage'
          /\ status' = status
     ELSE /\ statsAverageLatency' = statsAverageLatency
          /\ status' = HandleError("TOUCH_PROCESSING_ERROR", errEmitOk)
  /\ notified' =
       IF perfEmitOk THEN notified ELSE NotifyError("TOUCH_PROCESSING_ERROR", errEmitOk)
  /\ emitted' = EmitFor(emitted, s.id, "performance_update")
  /\ samples' = (samples \ {s}) \cup (IF emits THEN {Sample(s.id, "classified")} ELSE {})
  /\ op' = Op("classified", IF perfEmitOk THEN "ok" ELSE Caught(errEmitOk))
  /\ UNCHANGED <<initRuns, nextRun, destroyRuns, nDestroys, enableRequested, components>>
  /\ UNCHANGED <<totalTouches, totalEmotions, totalResonances, recognitionAccuracy, topModes>>
  /\ UNCHANGED <<subscribed, configVars, utilityVars>>

\* processTouch rejects: the catch block reports TOUCH_PROCESSING_ERROR
ClassifyRejects(s, errEmitOk) ==
  /\ s \in samples /\ s.stage = "classify"
  /\ samples' = samples \ {s}
  /\ status' = HandleError("TOUCH_PROCESSING_ERROR", errEmitOk)
  /\ notified' = NotifyError("TOUCH_PROCESSING_ERROR", errEmitOk)
  /\ op' = Op("classifyFail", Caught(errEmitOk))
  /\ UNCHANGED <<initRuns, nextRun, destroyRuns, nDestroys, enableRequested, components>>
  /\ UNCHANGED <<totalTouches, totalEmotions, totalResonances, recognitionAccuracy, topModes>>
  /\ UNCHANGED <<perfVars, emitted>>
  /\ UNCHANGED <<subscribed, configVars, utilityVars>>

\* handleEmotionEvent(emotionEvent) up to its await: count the emotion, emit
\* it, hand it to resonanceEngine.processEmotion
HandleEmotionEvent(s, emitOk, errEmitOk) ==
  /\ s \in samples /\ s.stage = "classified"
  /\ totalEmotions' = totalEmotions + 1
  /\ IF emitOk
     THEN /\ samples' = (samples \ {s}) \cup {Sample(s.id, "map")}
          /\ status' = status
     ELSE /\ samples' = samples \ {s}
          /\ status' = HandleError("EMOTION_PROCESSING_ERROR", errEmitOk)
  /\ notified' = IF emitOk THEN notified ELSE NotifyError("EMOTION_PROCESSING_ERROR", errEmitOk)
  /\ emitted' = EmitFor(emitted, s.id, "emotion")
  /\ op' = Op("emotion", IF emitOk THEN "ok" ELSE Caught(errEmitOk))
  /\ UNCHANGED <<initRuns, nextRun, destroyRuns, nDestroys, enableRequested, components>>
  /\ UNCHANGED <<totalTouches, totalResonances, recognitionAccuracy, topModes>>
  /\ UNCHANGED perfVars
  /\ UNCHANGED <<subscribed, configVars, utilityVars>>

\* handleEmotionEvent after processEmotion has resolved:
\* updateRecognitionAccuracy(emotionEvent.confidence).
\* emits: the engine reports a resonance for this sample.
MapResolves(s, confidence, emits) ==
  /\ s \in samples /\ s.stage = "map"
  /\ recognitionAccuracy' = UpdateRecognitionAccuracy(recognitionAccuracy, confidence)
  /\ samples' = (samples \ {s}) \cup (IF emits THEN {Sample(s.id, "mapped")} ELSE {})
  /\ op' = Op("mapped", "")
  /\ UNCHANGED lifecycleVars
  /\ UNCHANGED <<totalTouches, totalEmotions, totalResonances, topModes>>
  /\ UNCHANGED <<perfVars, emitted, notified>>
  /\ UNCHANGED <<subscribed, configVars, utilityVars>>

\* processEmotion rejects: the catch block reports EMOTION_PROCESSING_ERROR
MapRejects(s, errEmitOk) ==
  /\ s \in samples /\ s.stage = "map"
  /\ samples' = samples \ {s}
  /\ status' = HandleError("EMOTION_PROCESSING_ERROR", errEmitOk)
  /\ notified' = NotifyError("EMOTION_PROCESSING_ERROR", errEmitOk)
  /\ op' = Op("mapFail", Caught(errEmitOk))
  /\ UNCHANGED <<initRuns, nextRun, destroyRuns, nDestroys, enableRequested, components>>
  /\ UNCHANGED <<totalTouches, totalEmotions, totalResonances, recognitionAccuracy, topModes>>
  /\ UNCHANGED <<perfVars, emitted>>
  /\ UNCHANGED <<subscribed, configVars, utilityVars>>

\* handleResonanceEvent(resonanceEvent): count it, emit the full event,
\* updateModeStatistics(action.mode).  ok is FALSE when a 'resonance'
\* subscriber throws or the event carries no action: the table is not
\* updated and the catch block reports RESONANCE_PROCESSING_ERROR.
HandleResonanceEvent(s, mode, ok, errEmitOk) ==
  /\ s \in samples /\ s.stage = "mapped"
  /\ totalResonances' = totalResonances + 1
  /\ IF ok
     THEN /\ topModes' = UpdateModeStatistics(topModes, mode)
          /\ status' = status
     ELSE /\ topModes' = topModes
          /\ status' = HandleError("RESONANCE_PROCESSING_ERROR", errEmitOk)
  /\ notified' = IF ok THEN notified ELSE NotifyError("RESONANCE_PROCESSING_ERROR", errEmitOk)
  /\ emitted' = EmitFor(emitted, s.id, "resonance")
  /\ samples' = samples \ {s}
  /\ op' = Op("resonance", IF ok THEN mode ELSE Caught(errEmitOk))
  /\ UNCHANGED <<initRuns, nextRun, destroyRuns, nDestroys, enableRequested, components>>
  /\ UNCHANGED <<totalTouches, totalEmotions, recognitionAccuracy>>
  /\ UNCHANGED perfVars
  /\ UNCHANGED <<subscribed, configVars, utilityVars>>

\* ------------------------------------------------- performance monitoring

\* a slip: the tick also drops the oldest sample of the latency window
MonitorTickTrimming(heapUsed) ==
  /\ monitor' = [memoryUsage |-> heapUsed, statusMemoryUsage |-> heapUsed,
                 sessionDuration |-> now, uptime |-> now]
  /\ latencySamples' = IF latencySamples = <<>> THEN <<>> ELSE Tail(latencySamples)
  /\ op' = Op("monitor", "")
  /\ UNCHANGED <<lifecycleVars, subscribed, notified, configVars>>
  /\ UNCHANGED <<samples, totalTouches, totalEmotions, totalResonances, recognitionAccuracy,
                 perfAverage, statusLatency, statsAverageLatency, topModes, pushed, emitted>>
  /\ UNCHANGED <<retry, fingerprint, probe, matches, storeVars, mapperVars>>
  /\ UNCHANGED <<listeners, constructor, loading, uuids>>

\* the callback of the monitoring timer runs: the heap in use, in MB, goes
\* into the metrics and the status; the session duration and the uptime are
\* the time since the constructor, which ran at time 0
MonitorTick(heapUsed) ==
  /\ monitor' = [memoryUsage |-> heapUsed, statusMemoryUsage |-> heapUsed,
                 sessionDuration |-> now, uptime |-> now]
  /\ op' = Op("monitor", "")
  /\ UNCHANGED <<lifecycleVars, pipelineVars, subscribed, notified, configVars>>
  /\ UNCHANGED <<retry, fingerprint, probe, matches, storeVars, mapperVars>>
  /\ UNCHANGED <<listeners, constructor, loading, uuids>>

\* ----------------------------------------------------------- subscribers

\* rti.on('status_change', listener), called while no destroy() is under way
Subscribe ==
  /\ ~subscribed
  /\ destroyRuns = 0
  /\ subscribed' = TRUE
  /\ op' = Op("on", "status_change")
  /\ UNCHANGED <<lifecycleVars, pipelineVars, notified, configVars, utilityVars>>

\* ------------------------------------------------- configuration utilities

\* RTIUtils.validateConfig(c) is called
Validate(c) ==
  /\ validated' = c
  /\ validation' = ValidateConfig(c)
  /\ op' = Op("validateConfig", "")
  /\ UNCHANGED <<lifecycleVars, pipelineVars, subscribed, notified, config, utilityVars>>

\* ----------------------------------------------------------------- retry

\* RTIUtils.retry(func, maxRetries, baseDelay) up to its first await func()
Retry(maxRetries, baseDelay) ==
  /\ retry.pc = "idle"
  /\ retry' = [pc |-> "func", maxRetries |-> maxRetries, baseDelay |-> baseDelay,
               attempt |-> 0, calls |-> 0, waits |-> <<>>]
  /\ op' = Op("retry", "")
  /\ UNCHANGED <<lifecycleVars, pipelineVars, subscribed, notified, configVars, mapperVars, otherVars>>
  /\ UNCHANGED <<fingerprint, probe, matches, storeVars>>

\* func() resolves: retry returns its result
FuncResolves ==
  /\ retry.pc = "func"
  /\ retry' = [retry EXCEPT !.calls = @ + 1, !.pc = "returned"]
  /\ op' = Op("func", "resolved")
  /\ UNCHANGED <<lifecycleVars, pipelineVars, subscribed, notified, configVars, mapperVars, otherVars>>
  /\ UNCHANGED <<fingerprint, probe, matches, storeVars>>

\* func() rejects: on the last attempt the error is thrown, otherwise retry
\* sleeps for the delay
FuncRejects ==
  /\ retry.pc = "func"
  /\ retry' = IF retry.attempt = retry.maxRetries
               THEN [retry EXCEPT !.calls = @ + 1, !.pc = "thrown"]
               ELSE [retry EXCEPT !.calls = @ + 1, !.pc = "sleep",
                                  !.waits = Append(@, Delay(retry.baseDelay, retry.attempt))]
  /\ op' = Op("func", "rejected")
  /\ UNCHANGED <<lifecycleVars, pipelineVars, subscribed, notified, configVars, mapperVars, otherVars>>
  /\ UNCHANGED <<fingerprint, probe, matches, storeVars>>

\* the sleep is over: attempt++, and the loop condition attempt <= maxRetries
SleepResolves ==
  /\ retry.pc = "sleep"
  /\ retry' = [retry EXCEPT !.attempt = @ + 1,
                            !.pc = IF retry.attempt + 1 <= retry.maxRetries
                                   THEN "func" ELSE "thrown"]
  /\ op' = Op("sleep", "")
  /\ UNCHANGED <<lifecycleVars, pipelineVars, subscribed, notified, configVars, mapperVars, otherVars>>
  /\ UNCHANGED <<fingerprint, probe, matches, storeVars>>

\* --------------------------------------------------------- GenesisProfile
\* A profile constructed over a storage that holds nothing under its key;
\* the loadProfile of its constructor waits for storage.get, which has read
\* that.  Listeners of the profile's events return normally; the 'error'
\* event has a listener or none.

\* new GenesisProfile(userId, storage) for the same user over the same
\* storage: the profile is the default one, and loadProfile is called, whose
\* storage.get reads what the storage holds
NewGenesisProfile ==
  /\ profile' = Rest(CreateDefaultProfile(UserId, now))
  /\ fingerprint' = <<>>
  /\ loading' = [pending |-> TRUE, stored |-> persisted]
  /\ op' = Op("new GenesisProfile", "")
  /\ UNCHANGED <<lifecycleVars, pipelineVars, subscribed, notified, configVars, mapperVars>>
  /\ UNCHANGED <<retry, probe, matches, now, saves, persisted, lastEvent, returned>>
  /\ UNCHANGED <<monitor, listeners, constructor, uuids>>

\* storage.get resolves for loadProfile: a stored blob is decoded as the
\* profile's privacy settings say and laid over the profile, and
\* 'profile_loaded' is emitted; when decoding throws, 'error' is emitted with
\* code PROFILE_LOAD_ERROR
LoadResolves ==
  LET stored == loading.stored
      decrypted == Deserialize(profile.privacySettings.encryptData, stored)
      loaded == Overlay(WholeProfile, decrypted.value)
  IN /\ loading # NoLoad
     /\ loading' = NoLoad
     /\ IF stored = NoBlob
        THEN /\ UNCHANGED <<profile, fingerprint, lastEvent>>
             /\ op' = Op("loadProfile", [stored |-> stored, outcome |-> "nothing stored"])
        ELSE IF decrypted.ok
        THEN /\ profile' = Rest(loaded)
             /\ fingerprint' = loaded.emotionalFingerprint
             /\ lastEvent' = "profile_loaded"
             /\ op' = Op("loadProfile", [stored |-> stored, outcome |-> "profile_loaded"])
        ELSE /\ UNCHANGED <<profile, fingerprint>>
             /\ lastEvent' = "error"
             /\ op' = Op("loadProfile", [stored |-> stored, outcome |-> "PROFILE_LOAD_ERROR"])
     /\ UNCHANGED <<lifecycleVars, pipelineVars, subscribed, notified, configVars, mapperVars>>
     /\ UNCHANGED <<retry, probe, matches, now, saves, persisted, returned>>
     /\ UNCHANGED <<monitor, listeners, constructor, uuids>>

\* time passes
Tick ==
  /\ now < MaxTime
  /\ now' = now + 1
  /\ op' = Op("tick", "")
  /\ UNCHANGED <<lifecycleVars, pipelineVars, subscribed, notified, configVars, mapperVars, otherVars>>
  /\ UNCHANGED <<retry, fingerprint, probe, matches>>
  /\ UNCHANGED <<profile, saves, persisted, lastEvent, returned>>

\* saveProfile() up to its await of storage.set, called by a handler that has
\* made the profile whole: updatedAt is stamped and the profile serialized;
\* event is what the handler emits once saveProfile has returned
SaveProfile(whole, event) ==
  LET stamped == [whole EXCEPT !.updatedAt = now]
  IN /\ Len(saves) < MaxPending
     /\ profile' = Rest(stamped)
     /\ fingerprint' = stamped.emotionalFingerprint
     /\ saves' = Append(saves, [data |-> Serialize(stamped), event |-> event])
     /\ UNCHANGED <<now, persisted, lastEvent>>

\* storage.set resolves for the oldest save: the blob is stored,
\* 'profile_saved' is emitted, and the handler emits its event
SaveResolves ==
  /\ saves # <<>>
  /\ persisted' = Head(saves).data
  /\ lastEvent' = Head(saves).event
  /\ saves' = Tail(saves)
  /\ op' = Op("saveProfile", "resolved")
  /\ UNCHANGED <<lifecycleVars, pipelineVars, subscribed, notified, configVars, mapperVars, otherVars>>
  /\ UNCHANGED <<retry, fingerprint, probe, matches>>
  /\ UNCHANGED <<profile, now, returned>>

\* storage.set rejects for the oldest save: saveProfile emits 'error'; with an
\* 'error' listener it returns and the handler emits its event, without one
\* emit throws and the handler rejects
SaveRejects(errEmitOk) ==
  /\ saves # <<>>
  /\ lastEvent' = IF errEmitOk THEN Head(saves).event ELSE lastEvent
  /\ saves' = Tail(saves)
  /\ op' = Op("saveProfile", IF errEmitOk THEN "failed" ELSE "escaped")
  /\ UNCHANGED <<lifecycleVars, pipelineVars, subscribed, notified, configVars, mapperVars, otherVars>>
  /\ UNCHANGED <<retry, fingerprint, probe, matches>>
  /\ UNCHANGED <<profile, now, persisted, returned>>

\* addEmotionalPattern(pattern) up to its await of saveProfile: the pattern,
\* with a fresh id and its creation time, is pushed onto the fingerprint
AddEmotionalPattern(pattern) ==
  /\ Len(fingerprint) < MaxPatterns
  /\ uuids' = uuids + 1
  /\ SaveProfile([WholeProfile EXCEPT !.emotionalFingerprint =
                    Append(@, Overlay(pattern, [id |-> uuids + 1, createdAt |-> now]))],
                 "pattern_added")
  /\ op' = Op("addEmotionalPattern", "")
  /\ UNCHANGED <<lifecycleVars, pipelineVars, subscribed, notified, configVars, mapperVars>>
  /\ UNCHANGED <<retry, probe, matches, returned>>
  /\ UNCHANGED <<monitor, listeners, constructor, loading>>

\* a slip: the profile is saved whether or not the pattern was found
UpdateEmotionalPatternAlwaysSaves(patternId, updates) ==
  LET patternIndex == FindIndex(fingerprint, patternId)
  IN /\ SaveProfile(IF patternIndex # 0
                    THEN [WholeProfile EXCEPT !.emotionalFingerprint[patternIndex] =
                            Overlay(Overlay(@, updates), [lastObserved |-> now])]
                    ELSE WholeProfile,
                    "pattern_updated")
     /\ op' = Op("updateEmotionalPattern", [id |-> patternId, updates |-> updates])
     /\ UNCHANGED <<lifecycleVars, pipelineVars, subscribed, notified, configVars, mapperVars, otherVars>>
     /\ UNCHANGED <<retry, probe, matches, returned>>

\* updateEmotionalPattern(patternId, updates) up to its await of saveProfile;
\* with an id that is not in the fingerprint it does nothing
UpdateEmotionalPattern(patternId, updates) ==
  LET patternIndex == FindIndex(fingerprint, patternId)
  IN /\ IF patternIndex # 0
        THEN SaveProfile([WholeProfile EXCEPT !.emotionalFingerprint[patternIndex] =
                            Overlay(Overlay(@, updates), [lastObserved |-> now])],
                         "pattern_updated")
        ELSE UNCHANGED <<fingerprint, profile, now, saves, persisted, lastEvent>>
     /\ op' = Op("updateEmotionalPattern", [id |-> patternId, updates |-> updates])
     /\ UNCHANGED <<lifecycleVars, pipelineVars, subscribed, notified, configVars, mapperVars, otherVars>>
     /\ UNCHANGED <<retry, probe, matches, returned>>

\* removeEmotionalPattern(patternId) up to its await of saveProfile; with an
\* id that is not in the fingerprint it does nothing
RemoveEmotionalPattern(patternId) ==
  LET patternIndex == FindIndex(fingerprint, patternId)
  IN /\ IF patternIndex # 0
        THEN SaveProfile([WholeProfile EXCEPT !.emotionalFingerprint =
                            SubSeq(@, 1, patternIndex - 1) \o SubSeq(@, patternIndex + 1, Len(@))],
                         "pattern_removed")
        ELSE UNCHANGED <<fingerprint, profile, now, saves, persisted, lastEvent>>
     /\ op' = Op("removeEmotionalPattern", patternId)
     /\ UNCHANGED <<lifecycleVars, pipelineVars, subscribed, notified, configVars, mapperVars, otherVars>>
     /\ UNCHANGED <<retry, probe, matches, returned>>

\* updateResonancePreferences(preferences) up to its await of saveProfile
UpdateResonancePreferences(preferences) ==
  /\ SaveProfile([WholeProfile EXCEPT !.resonancePreferences = Overlay(@, preferences)],
                 "preferences_updated")
  /\ op' = Op("updateResonancePreferences", preferences)
  /\ UNCHANGED <<lifecycleVars, pipelineVars, subscribed, notified, configVars, mapperVars, otherVars>>
  /\ UNCHANGED <<retry, probe, matches, returned>>

\* updatePrivacySettings(settings) up to its await of saveProfile
UpdatePrivacySettings(settings) ==
  /\ SaveProfile([WholeProfile EXCEPT !.privacySettings = Overlay(@, settings)],
                 "privacy_updated")
  /\ op' = Op("updatePrivacySettings", settings)
  /\ UNCHANGED <<lifecycleVars, pipelineVars, subscribed, notified, configVars, mapperVars, otherVars>>
  /\ UNCHANGED <<retry, probe, matches, returned>>

\* a slip: the adjustment is put at the head of the log
RecordLearningAdjustmentFirst(type, value) ==
  /\ Len(profile.learningData.adjustments) < MaxAdjustments
  /\ SaveProfile([WholeProfile EXCEPT
                    !.learningData.adjustments =
                       <<[type |-> type, value |-> value, timestamp |-> now]>> \o @,
                    !.learningData.lastTraining = now,
                    !.learningData.trainingSamples = @ + 1],
                 "learning_adjusted")
  /\ op' = Op("recordLearningAdjustment", [type |-> type, value |-> value])
  /\ UNCHANGED <<lifecycleVars, pipelineVars, subscribed, notified, configVars, mapperVars, otherVars>>
  /\ UNCHANGED <<retry, probe, matches, returned>>

\* recordLearningAdjustment(type, value) up to its await of saveProfile
RecordLearningAdjustment(type, value) ==
  /\ Len(profile.learningData.adjustments) < MaxAdjustments
  /\ SaveProfile([WholeProfile EXCEPT
                    !.learningData.adjustments =
                       Append(@, [type |-> type, value |-> value, timestamp |-> now]),
                    !.learningData.lastTraining = now,
                    !.learningData.trainingSamples = @ + 1],
                 "learning_adjusted")
  /\ op' = Op("recordLearningAdjustment", [type |-> type, value |-> value])
  /\ UNCHANGED <<lifecycleVars, pipelineVars, subscribed, notified, configVars, mapperVars, otherVars>>
  /\ UNCHANGED <<retry, probe, matches, returned>>

\* updateLearningAccuracy(accuracy) up to its await of saveProfile
UpdateLearningAccuracy(accuracy) ==
  /\ SaveProfile([WholeProfile EXCEPT !.learningData.accuracy = accuracy],
                 "accuracy_updated")
  /\ op' = Op("updateLearningAccuracy", accuracy)
  /\ UNCHANGED <<lifecycleVars, pipelineVars, subscribed, notified, configVars, mapperVars, otherVars>>
  /\ UNCHANGED <<retry, probe, matches, returned>>

\* a slip: the patterns are sorted where they are stored
FindMatchingPatternsInPlace(characteristics) ==
  /\ probe' = characteristics
  /\ matches' = FindMatching(fingerprint, characteristics)
  /\ fingerprint' = SortByConfidence(fingerprint)
  /\ op' = Op("findMatchingPatterns", "")
  /\ UNCHANGED <<lifecycleVars, pipelineVars, subscribed, notified, configVars, mapperVars, otherVars>>
  /\ UNCHANGED <<retry, storeVars>>

\* findMatchingPatterns(characteristics)
FindMatchingPatterns(characteristics) ==
  /\ probe' = characteristics
  /\ matches' = FindMatching(fingerprint, characteristics)
  /\ op' = Op("findMatchingPatterns", "")
  /\ UNCHANGED <<lifecycleVars, pipelineVars, subscribed, notified, configVars, mapperVars, otherVars>>
  /\ UNCHANGED <<retry, fingerprint, storeVars>>

\* getPersonalizedResonance(emotion), with its call of findMatchingPatterns
GetPersonalizedResonance(emotion) ==
  /\ probe' = DefaultProbe(emotion)
  /\ matches' = FindMatching(fingerprint, DefaultProbe(emotion))
  /\ returned' = [name |-> "getPersonalizedResonance", arg |-> emotion,
                  value |-> PersonalizedResonance(fingerprint,
                                                  profile.resonancePreferences, emotion)]
  /\ op' = Op("getPersonalizedResonance", emotion)
  /\ UNCHANGED <<lifecycleVars, pipelineVars, subscribed, notified, configVars, mapperVars, otherVars>>
  /\ UNCHANGED <<retry, fingerprint, profile, now, saves, persisted, lastEvent>>

\* exportProfile(includePrivate)
ExportProfile(includePrivate) ==
  /\ returned' = [name |-> "exportProfile", arg |-> includePrivate,
                  value |-> Export(WholeProfile, includePrivate)]
  /\ op' = Op("exportProfile", includePrivate)
  /\ UNCHANGED <<lifecycleVars, pipelineVars, subscribed, notified, configVars, mapperVars, otherVars>>
  /\ UNCHANGED <<retry, fingerprint, probe, matches>>
  /\ UNCHANGED <<profile, now, saves, persisted, lastEvent>>

\* importProfile(data, merge) up to its await of saveProfile
ImportProfile(data, merge) ==
  /\ SaveProfile(Imported(WholeProfile, data, merge, now), "profile_imported")
  /\ op' = Op("importProfile", [data |-> data, merge |-> merge])
  /\ UNCHANGED <<lifecycleVars, pipelineVars, subscribed, notified, configVars, mapperVars, otherVars>>
  /\ UNCHANGED <<retry, probe, matches, returned>>

\* ------------------------------------------------------- Resonance Mapper

\* a classified sample reaches the mapper
Classified(input) ==
  /\ mapInput = NoInput
  /\ mapInput' = input
  /\ op' = Op("classified", "")
  /\ UNCHANGED <<lifecycleVars, pipelineVars, subscribed, notified, configVars>>
  /\ UNCHANGED <<retry, fingerprint, probe, matches, storeVars, mapped, otherVars>>

\* map(emotionalState, pressure) is applied to the sample
MapSample ==
  /\ mapInput # NoInput
  /\ mapped = NoAction
  /\ mapped' = Map(mapInput.emotionalState, mapInput.pressure)
  /\ op' = Op("map", "")
  /\ UNCHANGED <<lifecycleVars, pipelineVars, subscribed, notified, configVars>>
  /\ UNCHANGED <<retry, fingerprint, probe, matches, storeVars, mapInput, otherVars>>

\* ------------------------------------------------------- specifications

Lifecycle ==
  \/ \E r \in initRuns : InitializeResolves(r)
  \/ \E r \in initRuns, e \in BOOLEAN : InitializeRejects(r, e)
  \/ \E b \in BOOLEAN : SetEnabled(b)
  \/ \E n \in LifecycleUpdates : UpdateConfig(n)
  \/ Destroy
  \/ DestroyResolves
  \/ \E e \in BOOLEAN : DestroyRejects(e)
  \/ \E c \in ComponentCodes, e \in BOOLEAN : ComponentError(c, e)

Pipeline ==
  \/ \E k, e \in BOOLEAN : HandleTouchEvent(MaxSamples, k, e)
  \/ \E s \in samples, l \in LatencyInputs(Len(pushed) + 1), m, k, e \in BOOLEAN :
       ClassifyResolves(s, l, m, k, e)
  \/ \E s \in samples, e \in BOOLEAN : ClassifyRejects(s, e)
  \/ \E s \in samples, k, e \in BOOLEAN : HandleEmotionEvent(s, k, e)
  \/ \E s \in samples, c \in Confidences, m \in BOOLEAN : MapResolves(s, c, m)
  \/ \E s \in samples, e \in BOOLEAN : MapRejects(s, e)
  \/ \E s \in samples, m \in Modes, k, e \in BOOLEAN : HandleResonanceEvent(s, m, k, e)

\* the whole orchestrator: lifecycle and pipeline interleaved, with at most
\* FullSamples samples
Next ==
  \/ Lifecycle
  \/ Pipeline /\ totalTouches' <= FullSamples

Spec == Init /\ [][Next]_vars

\* the orchestrator's lifecycle alone; a component's initialize() that does
\* not fail resolves, and the event loop then resumes initializeComponents
LifecycleSpec ==
  /\ Init
  /\ [][Lifecycle]_vars
  /\ \A i \in 1..(MaxInits + 1) :
       WF_vars(\E r \in initRuns : r.id = i /\ InitializeResolves(r))

\* the sample pipeline alone
PipelineSpec == Init /\ [][Pipeline]_vars

\* samples delivered and classified one after the other, none reported as an
\* emotion: the latency window filled beyond its size
WindowNext ==
  \/ samples = {} /\ HandleTouchEvent(MaxPushes, TRUE, TRUE)
  \/ \E s \in samples, l \in LatencyInputs(Len(pushed) + 1) :
       ClassifyResolves(s, l, FALSE, TRUE, TRUE)

WindowSpec == Init /\ [][WindowNext]_vars

\* the lifecycle with a 'status_change' listener that registers at any moment
SubscriberNext ==
  \/ Lifecycle
  \/ Subscribe

SubscriberSpec == Init /\ [][SubscriberNext]_vars

\* configurations offered to updateConfig
ConfigNext == \E n \in ConfigUpdates : UpdateConfig(n)

ConfigSpec == Init /\ [][ConfigNext]_vars

\* configurations given to validateConfig
ValidateNext == \E c \in Configs : Validate(c)

ValidateSpec == Init /\ [][ValidateNext]_vars

\* one call of retry; func terminates, and so does the sleep
RetryNext ==
  \/ \E m \in 0..MaxRetries, b \in BaseDelays : Retry(m, b)
  \/ FuncResolves
  \/ FuncRejects
  \/ SleepResolves

RetrySpec ==
  /\ Init
  /\ [][RetryNext]_vars
  /\ WF_vars(FuncResolves \/ FuncRejects)
  /\ WF_vars(SleepResolves)

\* patterns added to a profile, each saved before the next one, and looked up
ProfileNext ==
  \/ \E p \in PatternInputs : saves = <<>> /\ AddEmotionalPattern(p)
  \/ \E c \in Probes : FindMatchingPatterns(c)
  \/ SaveResolves

ProfileSpec == Init /\ [][ProfileNext]_vars

\* the patterns given to a profile asked for personalized resonance: three
\* nearer than 0.2 to the default probe, with no pulse correlation and
\* confidence 0.8, with correlations 0 and 0.7 and confidence 0.9; and one
\* pattern 0.3 away from the probe
ResonancePatterns ==
  {[characteristics |-> Overlay([primary |-> "love", intensityRange |-> <<2, 6>>,
                                 pressureSensitivity |-> 4, thermalSignature |-> 6],
                                x.pulse),
    confidence |-> x.confidence, lastObserved |-> 0] :
     x \in {[pulse |-> [thermalSignature |-> 6], confidence |-> 8],
            [pulse |-> [pulseCorrelation |-> 0], confidence |-> 9],
            [pulse |-> [pulseCorrelation |-> 7], confidence |-> 9]}}
  \cup {[characteristics |-> [primary |-> "love", intensityRange |-> <<2, 6>>,
                              pressureSensitivity |-> 8, thermalSignature |-> 5],
         confidence |-> 9, lastObserved |-> 0]}

\* a profile that is given patterns, each saved or not before the next one,
\* and asked for matching patterns and for personalized resonance
ResonanceNext ==
  \/ \E p \in ResonancePatterns : saves = <<>> /\ AddEmotionalPattern(p)
  \/ \E e \in Primaries : FindMatchingPatterns(DefaultProbe(e))
  \/ \E e \in Primaries : GetPersonalizedResonance(e)
  \/ SaveResolves
  \/ \E e \in BOOLEAN : SaveRejects(e)

ResonanceSpec == Init /\ [][ResonanceNext]_vars

\* the patterns given to a profile whose patterns are then updated
StorePatterns ==
  {p \in PatternInputs :
     /\ p.characteristics.pressureSensitivity = 5
     /\ \/ p.characteristics.primary = "love" /\ p.confidence = 5
        \/ p.characteristics.primary = "anger" /\ p.confidence = 9}

\* the ids given to updateEmotionalPattern: those of the patterns added, and
\* one that no pattern has
PatternIds == 1..(MaxStore + 1)

\* the updates given to updateEmotionalPattern: another confidence, a
\* lastObserved of the caller's
Updates == {[confidence |-> 7], [lastObserved |-> 9]}

\* a profile whose patterns, MaxStore at most, are added and updated as time
\* passes, each change saved before the next call
StoreNext ==
  \/ \E p \in StorePatterns :
       saves = <<>> /\ Len(fingerprint) < MaxStore /\ AddEmotionalPattern(p)
  \/ \E id \in PatternIds, u \in Updates : saves = <<>> /\ UpdateEmotionalPattern(id, u)
  \/ Tick
  \/ SaveResolves

StoreSpec == Init /\ [][StoreNext]_vars

\* the settings given to updatePrivacySettings
PrivacyUpdates ==
  {[sharePatterns |-> TRUE], [sharePreferences |-> TRUE], [encryptData |-> FALSE]}

\* the preferences given to updateResonancePreferences
PreferenceUpdates == {[responseSpeed |-> "fast"]}

\* the accuracies given to updateLearningAccuracy, in tenths
Accuracies == {9}

\* a profile that is given a pattern and whose preferences, privacy settings
\* and learning data are changed as time passes, each change saved before the
\* next call, and which is exported
ExportNext ==
  \/ \E p \in StorePatterns :
       /\ saves = <<>>
       /\ fingerprint = <<>>
       /\ p.characteristics.primary = "love"
       /\ AddEmotionalPattern(p)
  \/ \E r \in PreferenceUpdates : saves = <<>> /\ UpdateResonancePreferences(r)
  \/ \E s \in PrivacyUpdates : saves = <<>> /\ UpdatePrivacySettings(s)
  \/ \E a \in Accuracies : saves = <<>> /\ UpdateLearningAccuracy(a)
  \/ \E b \in BOOLEAN : ExportProfile(b)
  \/ Tick
  \/ SaveResolves

ExportSpec == Init /\ [][ExportNext]_vars

\* the data given to importProfile: another user's identity and creation
\* time, a display name, learning data
ImportData ==
  {[userId |-> "u2", createdAt |-> 9],
   [displayName |-> "Imported"],
   [userId |-> "u2",
    learningData |-> [learningRate |-> 2, accuracy |-> 5, trainingSamples |-> 1,
                      lastTraining |-> 9, adjustments |-> <<>>]]}

\* a profile that is given a pattern and an accuracy and into which data are
\* imported as time passes, each change saved before the next call
ImportNext ==
  \/ \E d \in ImportData, m \in BOOLEAN : saves = <<>> /\ ImportProfile(d, m)
  \/ \E p \in StorePatterns :
       /\ saves = <<>>
       /\ fingerprint = <<>>
       /\ uuids < MaxStore
       /\ p.characteristics.primary = "love"
       /\ AddEmotionalPattern(p)
  \/ \E a \in Accuracies : saves = <<>> /\ UpdateLearningAccuracy(a)
  \/ Tick
  \/ SaveResolves

ImportSpec == Init /\ [][ImportNext]_vars

\* the adjustments given to recordLearningAdjustment, values in tenths
AdjustmentTypes == {"sensitivity", "threshold"}
AdjustmentValues == {1, 2}

\* a profile that learns as time passes, each change saved before the next
\* call
LearningNext ==
  \/ \E t \in AdjustmentTypes, v \in AdjustmentValues :
       saves = <<>> /\ RecordLearningAdjustment(t, v)
  \/ \E a \in Accuracies : saves = <<>> /\ UpdateLearningAccuracy(a)
  \/ Tick
  \/ SaveResolves

LearningSpec == Init /\ [][LearningNext]_vars

\* samples mapped, each on its own
MapperNext ==
  \/ mapInput = NoInput /\ \E i \in MapInputs : Classified(i)
  \/ MapSample

MapperSpec == Init /\ [][MapperNext]_vars

\* the orchestrator told of errors by its components, with any code, while it
\* initializes and after
SeverityNext ==
  \/ \E code \in DOMAIN Spelling, e \in BOOLEAN : ComponentError(code, e)
  \/ \E r \in initRuns : InitializeResolves(r)
  \/ Subscribe

SeveritySpec == Init /\ [][SeverityNext]_vars

\* samples that go through the pipeline one after the other, MaxResonances at
\* most, each classified with the smallest latency and mapped; the handling
\* of the resonance result succeeds or fails
ModeNext ==
  \/ samples = {} /\ HandleTouchEvent(MaxResonances, TRUE, TRUE)
  \/ \E s \in samples, l \in LatencyInputs(Len(pushed) + 1) :
       /\ \A k \in LatencyInputs(Len(pushed) + 1) : l <= k
       /\ ClassifyResolves(s, l, TRUE, TRUE, TRUE)
  \/ \E s \in samples : HandleEmotionEvent(s, TRUE, TRUE)
  \/ \E s \in samples, c \in Confidences :
       /\ \A k \in Confidences : c <= k
       /\ MapResolves(s, c, TRUE)
  \/ \E s \in samples, m \in Modes, k, e \in BOOLEAN : HandleResonanceEvent(s, m, k, e)

ModeSpec == Init /\ [][ModeNext]_vars

\* new RTI(config): the constructor's calls, and after it the run of
\* initializeComponents it has started
ConstructorNext ==
  \/ ConstructorInitializes
  \/ SetupEventListeners
  \/ \E r \in initRuns : constructor = "thrown" /\ InitializeResolves(r)
  \/ \E r \in initRuns, e \in BOOLEAN : constructor = "thrown" /\ InitializeRejects(r, e)

ConstructorSpec == Constructing /\ [][ConstructorNext]_vars

\* the heap in use when the timer's callback runs, in MB
HeapUsed == {40, 60}

\* samples that go through the pipeline one after the other while time
\* passes and the monitoring timer fires
MonitorNext ==
  \/ ModeNext
  \/ Tick
  \/ \E h \in HeapUsed : MonitorTick(h)

MonitorSpec == Init /\ [][MonitorNext]_vars

\* ---------------------------------------------------------------- claims

\* fractions: equality and sum, by cross-multiplication
FracEq(a, b) == a.num * b.den = b.num * a.den

RECURSIVE SumPercentages(_)
SumPercentages(table) ==
  IF table = <<>> THEN Zero
  ELSE LET p == Head(table).percentage
           rest == SumPercentages(Tail(table))
       IN [num |-> p.num * rest.den + rest.num * p.den, den |-> p.den * rest.den]

Min(a, b) == IF a < b THEN a ELSE b

\* the last k entries of s
LastN(s, k) == SubSeq(s, Len(s) - k + 1, Len(s))

\* the mean of the last min(n, WindowSize) of the n latencies measured so far
ExpectedAverage ==
  LET k == Min(Len(pushed), WindowSize)
  IN [num |-> SumSeq(LastN(pushed, k)), den |-> k]

AllowedTransitions ==
  {<<"initializing", "ready">>, <<"ready", "processing">>, <<"processing", "ready">>,
   <<"ready", "error">>, <<"processing", "error">>, <<"ready", "disabled">>,
   <<"processing", "disabled">>, <<"error", "ready">>, <<"disabled", "ready">>}

\* C1: every change of the overall status is one of Initializing->Ready,
\* Ready<->Processing, Ready/Processing->Error, Ready/Processing->Disabled, or a
\* re-initialization out of Error or Disabled that ends in Ready.
C1_StatusTransitions ==
  [][status' # status => <<status, status'>> \in AllowedTransitions]_vars

\* C2: while the status is Error or Disabled a delivered touch sample is not
\* admitted: totalTouches is not incremented and nothing is classified.
C2_NoAdmissionWhenHalted ==
  [][(status \in {"error", "disabled"}) =>
       totalTouches' = totalTouches /\ samples' \subseteq samples]_vars

\* C3: setEnabled(false) called while a sample is in the pipeline does not make
\* the status Disabled before that sample has finished.
C3_DisableWaitsForSamples ==
  [][(op' = Op("setEnabled", "false") /\ status # "disabled" /\ samples # {})
       => status' # "disabled"]_vars

\* C4: once Disabled, the status stays Disabled until setEnabled(true) is
\* called: no completion of an initialization started by the constructor or by
\* updateConfig makes it Ready.
C4_DisabledUntilEnabled ==
  [][(status = "disabled" /\ status' = "ready") => enableRequested]_vars

\* C5: once Error, the status remains Error until a re-initialization
\* completes: setEnabled, destroy, further errors and samples do not change it.
C5_ErrorUntilReinit ==
  [][(status = "error" /\ status' # "error") => op'.name = "initDone"]_vars

\* C6: setEnabled(true) in status Disabled starts a run of initializeComponents
\* which, unless a component's initialize() fails, makes the status Ready;
\* setEnabled(true) in any other status changes nothing.
C6_EnableReinitializes ==
  /\ [][op' = Op("setEnabled", "true") =>
          IF status = "disabled"
          THEN /\ status' = status
               /\ \E r \in initRuns' \ initRuns : r.origin = "setEnabled" /\ r.step = 1
          ELSE UNCHANGED <<lifecycleVars, pipelineVars>>]_vars
  /\ (\E r \in initRuns : r.origin = "setEnabled")
       ~> (status = "ready" \/ op = Op("initFail", "setEnabled"))

\* C6 witness: a run started by setEnabled(true) has completed
C6_Witness == op = Op("initDone", "setEnabled") /\ status = "ready" /\ enableRequested

\* C7: after construction the status leaves Initializing: it is Ready when all
\* components initialize and Error when one fails, so once the constructor's
\* initialization has failed the status is no longer Initializing.
C7_ConstructorOutcome ==
  op = Op("initFail", "constructor") => status # "initializing"

\* C8: the latency window never holds more than 100 entries.
C8_WindowBounded == Len(latencySamples) <= WindowSize

\* C8 witness: more than 100 latencies measured, the window full
C8_Witness == Len(pushed) > WindowSize /\ Len(latencySamples) = WindowSize

\* C9: after n measurements the average latency is the mean of the last
\* min(n, 100) of them, and stats.averageLatency and
\* status.performance.latency both equal it.
C9_ReportedAverage ==
  pushed # <<>> =>
    /\ FracEq(perfAverage, ExpectedAverage)
    /\ FracEq(statusLatency, ExpectedAverage)
    /\ FracEq(statsAverageLatency, ExpectedAverage)

\* the part of C9 that holds for performanceMetrics.averageLatency and
\* status.performance.latency, for any subscriber
WindowMean ==
  pushed # <<>> =>
    /\ FracEq(perfAverage, ExpectedAverage)
    /\ FracEq(statusLatency, ExpectedAverage)
    /\ latencySamples = LastN(pushed, Min(Len(pushed), WindowSize))

\* C10: whenever the mode-usage table is non-empty its percentages sum to 100
\* and each entry's percentage is its count over the total of all counts,
\* times 100.
C10_ModePercentages ==
  topModes # <<>> =>
    /\ FracEq(SumPercentages(topModes), [num |-> 100, den |-> 1])
    /\ \A i \in 1..Len(topModes) :
         FracEq(topModes[i].percentage,
                [num |-> topModes[i].count * 100, den |-> SumCounts(topModes)])

\* C10 witness: resonance results of two samples, reporting different modes,
\* have been counted
C10_Witness ==
  /\ Len(topModes) = 2
  /\ totalResonances = 2
  /\ op.name = "resonance"

\* C11: an error of critical severity sets the status to Error; an error of any
\* other severity leaves the status as it was.
C11_CriticalSetsError ==
  [][op'.name = "componentError" =>
       IF op'.arg = "critical" THEN status' = "error" ELSE status' = status]_vars

\* the part of C11 that holds whatever the listeners do: only a critical code
\* changes the status, and only to Error
NonCriticalKeepsStatus ==
  [][op'.name = "componentError" =>
       (status' = status \/ (op'.arg = "critical" /\ status' = "error"))]_vars

\* C12: a failure of classification, of mapping, or while a resonance result
\* is handled is caught in the handler and reported as one error event: it
\* never leaves the handler.
C12_FailuresContained ==
  [][(op'.name \in {"classifyFail", "mapFail", "resonance"}) => op'.arg # "escaped"]_vars

\* the number of factors 100 in d
RECURSIVE Log100(_)
Log100(d) == IF d < 100 THEN 0 ELSE 1 + Log100(d \div 100)

\* the number of times updateRecognitionAccuracy has run: each run multiplies
\* the denominator of the accuracy by 100
EmaUpdates == Log100(recognitionAccuracy.den)

\* C13: every classification result received increments totalEmotions and
\* updates the accuracy EMA once, whether or not its mapping succeeds: when no
\* mapping is outstanding the number of EMA updates equals totalEmotions.
C13_EveryEmotionUpdatesAccuracy ==
  (\A s \in samples : s.stage # "map") => EmaUpdates = totalEmotions

\* the part of C13 that holds: the EMA is updated once for every
\* classification result whose mapping has succeeded, never more often
AccuracyUpdatesBounded == EmaUpdates <= totalEmotions

Range(f) == {f[i] : i \in DOMAIN f}

\* in t every a comes before every b
Precedes(t, a, b) == \A i, j \in 1..Len(t) : (t[i] = a /\ t[j] = b) => i < j

C15_StatusChangeDelivered ==
  [][(subscribed /\ status' # status) => notified' = status']_vars

\* the part of C15 that holds: the changes made by initialization, by critical
\* errors and by setEnabled(false) reach a listener still registered
StatusChangeDeliveredUnlessDestroyed ==
  [][(subscribed /\ subscribed' /\ status' # status) => notified' = status']_vars

\* the checks a configuration violates, each named as its message is
ViolatedChecks(c) ==
  {m \in {"samplingRate min", "samplingRate max", "pressureSensitivity range",
          "confidenceThreshold min", "confidenceThreshold max", "maxLatency max",
          "memoryLimit max"} :
     \/ m = "samplingRate min" /\ c.hardware.samplingRate < MIN_SAMPLING_RATE_HZ
     \/ m = "samplingRate max" /\ c.hardware.samplingRate > MAX_SAMPLING_RATE_HZ
     \/ m = "pressureSensitivity range"
          /\ ~(0 <= c.hardware.pressureSensitivity /\ c.hardware.pressureSensitivity <= 100)
     \/ m = "confidenceThreshold min"
          /\ c.software.confidenceThreshold < MIN_CONFIDENCE_THRESHOLD
     \/ m = "confidenceThreshold max"
          /\ c.software.confidenceThreshold > MAX_CONFIDENCE_THRESHOLD
     \/ m = "maxLatency max" /\ c.performance.maxLatency > MAX_LATENCY_MS
     \/ m = "memoryLimit max" /\ c.performance.memoryLimit > MAX_MEMORY_USAGE_MB}

\* C16: validateConfig reports every violated check, each exactly once, and
\* valid is true exactly when no check is violated.
C16_AllViolationsReported ==
  op.name = "validateConfig" =>
    /\ Range(validation.errors) = ViolatedChecks(validated)
    /\ Len(validation.errors) = Cardinality(ViolatedChecks(validated))
    /\ validation.valid <=> validation.errors = <<>>

\* C16 witness: sampling rate 50 with confidence threshold 0.99, all else
\* valid, yields both violations
C16_Witness ==
  /\ op.name = "validateConfig"
  /\ validated.hardware.samplingRate = 50
  /\ validated.software.confidenceThreshold = 99
  /\ validation = [valid |-> FALSE,
                   errors |-> <<"samplingRate min", "confidenceThreshold max">>]

\* C17: a configuration in which validateConfig finds a violation is rejected
\* as a whole: when what updateConfig would install is invalid, the active
\* configuration stays as it was and no initialization is started.
C17_InvalidConfigRejected ==
  [][(op'.name = "updateConfig" /\ ~ValidateConfig(config').valid) =>
       (config' = config /\ initRuns' = initRuns)]_vars

\* what updateConfig does instead: the merge is installed whatever it holds
ConfigIsMerged ==
  [][op'.name = "updateConfig" =>
       \E n \in ConfigUpdates : config' = MergeConfig(config, n)]_vars

\* C18: retry terminates when func does; func is invoked at most maxRetries + 1
\* times, not again after its first success, and after maxRetries + 1 failures
\* the failure is thrown; the wait before the k-th retry is
\* baseDelay * 2^(k-1), and there is no wait after the last failed attempt.
C18_RetryBounded ==
  /\ [](/\ retry.calls <= retry.maxRetries + 1
        /\ Len(retry.waits) <= retry.maxRetries
        /\ \A k \in 1..Len(retry.waits) : retry.waits[k] = retry.baseDelay * 2^(k - 1)
        /\ retry.pc = "returned" =>
             op = Op("func", "resolved") /\ retry.calls = Len(retry.waits) + 1
        /\ retry.pc = "thrown" =>
             /\ op = Op("func", "rejected")
             /\ retry.calls = retry.maxRetries + 1
             /\ Len(retry.waits) = retry.maxRetries)
  /\ [][(retry.pc \in {"returned", "thrown"}) => retry' = retry]_vars
  /\ (retry.pc = "func") ~> (retry.pc \in {"returned", "thrown"})

\* C18 witness: three retries with waits 1, 2 and 4 times the base delay, all
\* four attempts failed
C18_Witness ==
  /\ retry.pc = "thrown"
  /\ retry.calls = 4
  /\ retry.waits = <<retry.baseDelay, 2 * retry.baseDelay, 4 * retry.baseDelay>>
  /\ retry.baseDelay = 500

\* a stored pattern qualifies for the probed characteristics: same primary
\* emotion, intensity within the pattern's range, both ends included, pressure
\* and thermal values nearer than 0.2 to the pattern's
Qualifies(p, c) ==
  LET dPressure == p.characteristics.pressureSensitivity - c.pressure
      dThermal == p.characteristics.thermalSignature - c.thermal
  IN /\ p.characteristics.primary = c.primary
     /\ c.intensity \in p.characteristics.intensityRange[1]..p.characteristics.intensityRange[2]
     /\ -Epsilon < dPressure /\ dPressure < Epsilon
     /\ -Epsilon < dThermal /\ dThermal < Epsilon

\* C19: findMatchingPatterns returns exactly the stored patterns that qualify,
\* each once: none that does not qualify, and every one that does.
C19_ExactlyTheQualifying ==
  op.name = "findMatchingPatterns" =>
    /\ Range(matches) = {p \in Range(fingerprint) : Qualifies(p, probe)}
    /\ Cardinality(Range(matches)) = Len(matches)

\* C19 witness: of three stored patterns with the probed emotion, one is
\* returned with the probed intensity at the upper end of its range, and one
\* whose pressure sensitivity is 0.2 away is not
C19_Witness ==
  /\ op.name = "findMatchingPatterns"
  /\ Len(fingerprint) = 3
  /\ Len(matches) = 1
  /\ probe.intensity = 6
  /\ \E i \in 1..3 :
       /\ fingerprint[i].characteristics.primary = probe.primary
       /\ fingerprint[i].characteristics.pressureSensitivity - probe.pressure = -Epsilon
       /\ fingerprint[i] \notin Range(matches)

\* where pattern p stands in the stored fingerprint
PositionOf(p) == CHOOSE k \in 1..Len(fingerprint) : fingerprint[k] = p

\* C20: the list returned by findMatchingPatterns is ordered by confidence
\* descending, and patterns of equal confidence keep their insertion order.
C20_OrderedByConfidence ==
  op.name = "findMatchingPatterns" =>
    \A i, j \in 1..Len(matches) :
      i < j =>
        /\ matches[i].confidence >= matches[j].confidence
        /\ matches[i].confidence = matches[j].confidence =>
             PositionOf(matches[i]) < PositionOf(matches[j])

\* C20 witness: three patterns returned, the first stored one last, the other
\* two of equal confidence
C20_Witness ==
  /\ op.name = "findMatchingPatterns"
  /\ Len(matches) = 3
  /\ matches[3] = fingerprint[1]
  /\ matches[1].confidence = matches[2].confidence
  /\ matches[2].confidence > matches[3].confidence

\* the calls that only read the profile
Queries == {"findMatchingPatterns", "getPersonalizedResonance"}

\* C21: findMatchingPatterns and getPersonalizedResonance leave the stored
\* fingerprint (contents and order), the preferences, the learning data and
\* the rest of the profile as they were, start no save and change nothing in
\* the storage; and a second call with the same arguments, right after the
\* first, returns what the first returned.
C21_QueriesReadOnly ==
  [][op'.name \in Queries =>
       /\ UNCHANGED <<fingerprint, profile, saves, persisted, lastEvent>>
       /\ (op.name = "findMatchingPatterns" /\ op'.name = "findMatchingPatterns"
           /\ probe' = probe) => matches' = matches
       /\ (op.name = "getPersonalizedResonance"
           /\ op'.name = "getPersonalizedResonance"
           /\ returned'.arg = returned.arg) => returned' = returned]_vars

\* C21 witness: findMatchingPatterns has returned two patterns in an order
\* that is not the order in which they are stored, while a save is pending
C21_Witness ==
  /\ op.name = "findMatchingPatterns"
  /\ Len(matches) = 2
  /\ Len(fingerprint) = 2
  /\ matches[1] = fingerprint[2]
  /\ fingerprint[1].confidence < fingerprint[2].confidence
  /\ persisted # NoBlob

\* C22: getPersonalizedResonance(emotion) returns the base preferences when
\* no stored pattern qualifies for the probe (emotion, 0.5, 0.5, 0.5);
\* otherwise the sensitivity comes from a qualifying pattern of highest
\* confidence (pressure = pressureSensitivity, thermal = thermalSignature,
\* pulse = pulseCorrelation when the pattern has one) and responseSpeed is
\* 'fast' exactly when that pattern's confidence is above 0.8.
C22_PersonalizedFromTopPattern ==
  op.name = "getPersonalizedResonance" =>
    LET c == [primary |-> returned.arg, intensity |-> 5, pressure |-> 5, thermal |-> 5]
        qualifying == {i \in 1..Len(fingerprint) : Qualifies(fingerprint[i], c)}
    IN IF qualifying = {}
       THEN returned.value = profile.resonancePreferences
       ELSE \E i \in qualifying :
              LET top == fingerprint[i]
              IN /\ \A j \in qualifying : fingerprint[j].confidence <= top.confidence
                 /\ returned.value.sensitivity.pressure =
                      top.characteristics.pressureSensitivity
                 /\ returned.value.sensitivity.thermal =
                      top.characteristics.thermalSignature
                 /\ "pulseCorrelation" \in DOMAIN top.characteristics =>
                      returned.value.sensitivity.pulse =
                        top.characteristics.pulseCorrelation
                 /\ returned.value.responseSpeed =
                      IF top.confidence > 8 THEN "fast" ELSE "normal"

\* what holds instead: the pulse is the pattern's correlation only when the
\* pattern has one other than 0, and 0.5 otherwise
PersonalizedWithPulseDefault ==
  op.name = "getPersonalizedResonance" =>
    LET c == [primary |-> returned.arg, intensity |-> 5, pressure |-> 5, thermal |-> 5]
        qualifying == {i \in 1..Len(fingerprint) : Qualifies(fingerprint[i], c)}
    IN IF qualifying = {}
       THEN returned.value = profile.resonancePreferences
       ELSE \E i \in qualifying :
              LET top == fingerprint[i]
                  hasPulse == /\ "pulseCorrelation" \in DOMAIN top.characteristics
                              /\ top.characteristics.pulseCorrelation # 0
              IN /\ \A j \in qualifying : fingerprint[j].confidence <= top.confidence
                 /\ returned.value.sensitivity.pressure =
                      top.characteristics.pressureSensitivity
                 /\ returned.value.sensitivity.thermal =
                      top.characteristics.thermalSignature
                 /\ returned.value.sensitivity.pulse =
                      IF hasPulse THEN top.characteristics.pulseCorrelation ELSE 5
                 /\ returned.value.responseSpeed =
                      IF top.confidence > 8 THEN "fast" ELSE "normal"

\* C23: updateEmotionalPattern with an id that no stored pattern has changes
\* nothing: not the fingerprint, not the rest of the profile, no save is
\* started, nothing is stored and no event emitted.  With an id that is
\* present, one pattern with that id takes the given fields and the current
\* time as lastObserved and keeps its other fields; the other patterns, their
\* number and their order are unchanged.
C23_UpdateTouchesOnlyThePattern ==
  [][op'.name = "updateEmotionalPattern" =>
       LET u == op'.arg.updates
           present == {i \in 1..Len(fingerprint) : fingerprint[i].id = op'.arg.id}
       IN IF present = {}
          THEN UNCHANGED <<fingerprint, profile, saves, persisted, lastEvent>>
          ELSE \E i \in present :
                 /\ Len(fingerprint') = Len(fingerprint)
                 /\ \A j \in 1..Len(fingerprint) \ {i} : fingerprint'[j] = fingerprint[j]
                 /\ fingerprint'[i].lastObserved = now
                 /\ \A k \in DOMAIN u \ {"lastObserved"} : fingerprint'[i][k] = u[k]
                 /\ \A k \in DOMAIN fingerprint[i] \ (DOMAIN u \cup {"lastObserved"}) :
                      fingerprint'[i][k] = fingerprint[i][k]]_vars

\* C23 witness: an update with an id that neither of the two stored patterns
\* has, after an update that stamped the second of them, and after a save
C23_Witness ==
  /\ op.name = "updateEmotionalPattern"
  /\ Len(fingerprint) = 2
  /\ \A i \in 1..2 : fingerprint[i].id # op.arg.id
  /\ fingerprint[1].lastObserved = 0
  /\ fingerprint[2].lastObserved = 1
  /\ fingerprint[2].confidence = 7
  /\ persisted # NoBlob
  /\ saves = <<>>

\* the fields exportProfile always gives
AlwaysExported == {"userId", "displayName", "version", "createdAt", "updatedAt"}

\* C24: what exportProfile(includePrivate) returns has the fields userId,
\* displayName, version, createdAt and updatedAt, the pattern array exactly
\* when includePrivate or sharePatterns, the preferences exactly when
\* includePrivate or sharePreferences, the privacy settings and the learning
\* data exactly when includePrivate, each with the profile's value; so with
\* includePrivate, sharePatterns and sharePreferences all false the result is
\* a function of the five fields alone: profiles that differ in patterns,
\* preferences, privacy settings or learning data only export the same.
C24_ExportRevealsOnlyWhatIsShared ==
  op.name = "exportProfile" =>
    LET e == returned.value
        includePrivate == returned.arg
        p == WholeProfile
    IN /\ DOMAIN e =
            AlwaysExported
              \cup (IF includePrivate \/ p.privacySettings.sharePatterns
                    THEN {"emotionalFingerprint"} ELSE {})
              \cup (IF includePrivate \/ p.privacySettings.sharePreferences
                    THEN {"resonancePreferences"} ELSE {})
              \cup (IF includePrivate THEN {"privacySettings", "learningData"} ELSE {})
       /\ \A k \in DOMAIN e : e[k] = p[k]
       /\ (~includePrivate /\ ~p.privacySettings.sharePatterns
             /\ ~p.privacySettings.sharePreferences) =>
            e = [userId |-> p.userId, displayName |-> p.displayName,
                 version |-> p.version, createdAt |-> p.createdAt,
                 updatedAt |-> p.updatedAt]

\* C24 witness: exportProfile(false) with both flags false on a profile that
\* has a pattern, changed preferences, unencrypted storage and a learnt
\* accuracy
C24_Witness ==
  /\ op.name = "exportProfile"
  /\ returned.arg = FALSE
  /\ ~profile.privacySettings.sharePatterns
  /\ ~profile.privacySettings.sharePreferences
  /\ ~profile.privacySettings.encryptData
  /\ fingerprint # <<>>
  /\ profile.resonancePreferences.responseSpeed = "fast"
  /\ profile.learningData.accuracy = 9
  /\ profile.updatedAt = 1

\* C25: importProfile(data, merge) leaves the userId as it was, whatever
\* userId the data carry; with merge it also leaves createdAt as it was and
\* every field absent from the data keeps its value; without merge every
\* field absent from the data has the value of createDefaultProfile for the
\* same userId.
C25_ImportPreservesIdentity ==
  [][op'.name = "importProfile" =>
       LET data == op'.arg.data
           old == WholeProfile
           new == WholeProfile'
           fresh == CreateDefaultProfile(old.userId, now)
       IN /\ new.userId = old.userId
          /\ op'.arg.merge =>
               /\ new.createdAt = old.createdAt
               /\ \A k \in DOMAIN old \ DOMAIN data : new[k] = old[k]
          /\ ~op'.arg.merge =>
               \A k \in DOMAIN old \ DOMAIN data : new[k] = fresh[k]]_vars

\* C25 as amended: the same, but for updatedAt, which the save that ends
\* importProfile sets to the time of the import
C25_ImportPreservesIdentityButUpdatedAt ==
  [][op'.name = "importProfile" =>
       LET data == op'.arg.data
           old == WholeProfile
           new == WholeProfile'
           fresh == CreateDefaultProfile(old.userId, now)
       IN /\ new.userId = old.userId
          /\ new.updatedAt = now
          /\ op'.arg.merge =>
               /\ new.createdAt = old.createdAt
               /\ \A k \in DOMAIN old \ (DOMAIN data \cup {"updatedAt"}) : new[k] = old[k]
          /\ ~op'.arg.merge =>
               \A k \in DOMAIN old \ DOMAIN data : new[k] = fresh[k]]_vars

\* C25 witness: a merging import of another user's data, later than the
\* profile's last save, into a profile with a pattern and a learnt accuracy
C25_Witness ==
  /\ op.name = "importProfile"
  /\ op.arg.merge
  /\ op.arg.data = [userId |-> "u2", createdAt |-> 9]
  /\ profile.userId = UserId
  /\ profile.createdAt = 0
  /\ profile.updatedAt = 1
  /\ persisted # NoBlob
  /\ persisted.body.updatedAt = 0
  /\ fingerprint # <<>>
  /\ profile.learningData.accuracy = 9

\* C26: recordLearningAdjustment(type, value) makes the adjustment log one
\* entry longer, the new entry, with that type and value, being the last and
\* the earlier entries unchanged, and raises trainingSamples by one;
\* updateLearningAccuracy(accuracy) sets the accuracy and leaves the rest of
\* the learning data, the log and trainingSamples among it, as it was.
C26_LogAppendOnly ==
  [][LET old == profile.learningData
         new == profile'.learningData
     IN /\ op'.name = "recordLearningAdjustment" =>
             /\ Len(new.adjustments) = Len(old.adjustments) + 1
             /\ SubSeq(new.adjustments, 1, Len(old.adjustments)) = old.adjustments
             /\ new.adjustments[Len(new.adjustments)].type = op'.arg.type
             /\ new.adjustments[Len(new.adjustments)].value = op'.arg.value
             /\ new.trainingSamples = old.trainingSamples + 1
        /\ op'.name = "updateLearningAccuracy" =>
             /\ new.accuracy = op'.arg
             /\ new.adjustments = old.adjustments
             /\ new.trainingSamples = old.trainingSamples
             /\ new.learningRate = old.learningRate
             /\ new.lastTraining = old.lastTraining]_vars

\* C26 witness: a second adjustment, unlike the first, has been recorded after
\* the accuracy was updated
C26_Witness ==
  /\ op.name = "recordLearningAdjustment"
  /\ Len(profile.learningData.adjustments) = 2
  /\ profile.learningData.adjustments[1].type # profile.learningData.adjustments[2].type
  /\ profile.learningData.adjustments[1].timestamp = 0
  /\ profile.learningData.adjustments[2].timestamp = 1
  /\ profile.learningData.trainingSamples = 2
  /\ profile.learningData.accuracy = 9

\* the actions of the rule table
TableActions == {RESONANCE_MAPPINGS[i].action : i \in 1..Len(RESONANCE_MAPPINGS)}

\* C27: for every emotion and every pressure from 0 to 1, map returns an
\* action of the rule table or the neutral fallback (mode alteration, form
\* structured, no characteristics), never an undefined result.
C27_MapIsTotal ==
  op.name = "map" =>
    /\ mapped \in TableActions \cup
         {[mode |-> "alteration", form |-> "structured", characteristics |-> <<>>]}
    /\ mapped # NoAction

\* C27 witness: love under a pressure below every threshold is mapped to the
\* neutral fallback
C27_Witness ==
  /\ op.name = "map"
  /\ mapInput.emotionalState.primary = "love"
  /\ mapInput.pressure < PRESSURE_THRESHOLDS.VERY_LIGHT
  /\ mapped = NeutralFallback

C29_AngerHeavyTouch ==
  (/\ op.name = "map"
   /\ mapInput.emotionalState.primary = "anger"
   /\ mapInput.emotionalState.secondary = {}
   /\ mapInput.emotionalState.intensity = 75
   /\ mapInput.pressure = 80)
    => mapped.mode = "destruction" /\ mapped.form = "geometric"

\* what holds instead: anger with frustration as the secondary emotion is
\* mapped to destruction and geometric, anger alone to the neutral fallback
AngerNeedsFrustration ==
  (/\ op.name = "map"
   /\ mapInput.emotionalState.primary = "anger"
   /\ mapInput.pressure = 80)
    => IF mapInput.emotionalState.secondary = {"frustration"}
       THEN mapped.mode = "destruction" /\ mapped.form = "geometric"
       ELSE mapped = NeutralFallback

\* the bands are ordered and do not overlap, as far as the pressure p shows:
\* p is in one band at most, and below every pressure of a heavier band
BandsOrdered(p) ==
  \A i, j \in 1..Len(Bands) :
    /\ (InBand(i, p) /\ InBand(j, p)) => i = j
    /\ i < j => \A q \in Pressures : (InBand(i, p) /\ InBand(j, q)) => p < q

ContainingPerformance == {"PERFORMANCE_DEGRADED", "LOW_PERFORMANCE", "PERFORMANCE"}

ExpectedSeverity(code) ==
  CASE code \in {"HARDWARE_NOT_SUPPORTED", "EMOTION_DECODER_ERROR",
                 "RESONANCE_ENGINE_ERROR"} -> "critical"
    [] code \in {"SENSOR_DISCONNECTED", "LATENCY_EXCEEDED",
                 "MEMORY_LIMIT_EXCEEDED"} -> "high"
    [] code \in ContainingPerformance -> "medium"
    [] OTHER -> "low"

C31_SeverityByCode ==
  [][\A code \in DOMAIN Spelling, e \in BOOLEAN :
       ComponentError(code, e) => op'.arg = ExpectedSeverity(code)]_vars

\* C31 witness: a component has reported a code with PERFORMANCE in it, which
\* was given severity medium and left the status as it was
C31_Witness ==
  /\ op = Op("componentError", "medium")
  /\ status = "ready"

\* the count the table holds for a mode, 0 when it has no entry for it
CountFor(table, mode) ==
  SumCounts(SelectSeq(table, LAMBDA m : m.mode = mode))

\* C32: after every update of the mode-usage table each mode has at most one
\* entry, the count of the reported mode is one more than before (1 for a mode
\* that had no entry), the other counts are what they were, and the table is
\* ordered by count, descending.
C32_ModeTableUpdate ==
  [][(op'.name = "resonance" /\ op'.arg \in Modes) =>
       /\ \A i, j \in 1..Len(topModes') : topModes'[i].mode = topModes'[j].mode => i = j
       /\ CountFor(topModes', op'.arg) = CountFor(topModes, op'.arg) + 1
       /\ \A m \in Modes \ {op'.arg} : CountFor(topModes', m) = CountFor(topModes, m)
       /\ \A i \in 1..Len(topModes') : topModes'[i].mode \in Modes /\ topModes'[i].count >= 1
       /\ \A i \in 1..(Len(topModes') - 1) : topModes'[i].count >= topModes'[i + 1].count]_vars

\* C32 witness: three results have been counted, the last for the mode that
\* was reported second, or first: it leads the table with 2, ahead of the
\* other mode
C32_Witness ==
  /\ op = Op("resonance", "blessing")
  /\ totalResonances = 3
  /\ topModes = <<[mode |-> "blessing", count |-> 2, percentage |-> [num |-> 200, den |-> 3]],
                  [mode |-> "creation", count |-> 1, percentage |-> [num |-> 100, den |-> 3]]>>

\* C34: the counts of the mode-usage table add up to totalResonances, in
\* every reachable state.
C34_CountsAddUp == SumCounts(topModes) = totalResonances

\* C33: a tick of the monitoring timer changes only the memory usage, the
\* session duration and the uptime: the status, the counters, the latency
\* window and its averages, the accuracy and the mode-usage table are what
\* they were, and so are the samples in the pipeline, each at its stage, and
\* the events emitted for them.
C33_TickChangesOnlyMonitoring ==
  [][op'.name = "monitor" =>
       /\ UNCHANGED <<status, totalTouches, totalEmotions, totalResonances>>
       /\ UNCHANGED <<latencySamples, perfAverage, statusLatency, statsAverageLatency>>
       /\ UNCHANGED <<recognitionAccuracy, topModes>>
       /\ UNCHANGED <<samples, emitted, pushed>>]_vars

\* C33 witness: the timer has fired one time unit after construction while
\* the second sample waits, classified and counted as an emotion, for the
\* resonance engine
C33_Witness ==
  /\ op.name = "monitor"
  /\ monitor = [memoryUsage |-> 60, statusMemoryUsage |-> 60, sessionDuration |-> 1, uptime |-> 1]
  /\ samples = {Sample(2, "map")}
  /\ totalResonances = 1

\* C35: when the constructor's setupEventListeners attaches the listeners,
\* the hardware core, the emotion decoder, the resonance engine and the
\* dimensional translator have all been created.
C35_ListenersOnExistingComponents ==
  [][(constructor = "setupEventListeners" /\ constructor' # constructor) =>
       \A i \in 1..NumComponents : components[Components[i]] # 0]_vars

\* what the constructor leaves with the default configuration: the state
\* every other specification starts from
ConstructorLeavesInit ==
  (constructor = "thrown" /\ op.name = "constructor" /\ config = DEFAULT_CONFIG) => Init

\* the constructor never returns: setupEventListeners always throws
ConstructorThrows == constructor \in {"initializeComponents", "setupEventListeners", "thrown"}

\* the events the orchestrator's pipeline takes from a component
EventsOf(component) ==
  CASE component = "forceTouchCore" -> {"touch", "error"}
    [] component = "emotionDecoder" -> {"emotion", "error"}
    [] component = "resonanceEngine" -> {"resonance", "error"}
    [] OTHER -> {"error"}

\* the instance a component field holds carries the orchestrator's listeners
\* for all its events
Listened(component) ==
  \A e \in EventsOf(component) :
    [component |-> component, instance |-> components[component], event |-> e] \in listeners

\* C36: when a re-initialization, started by updateConfig or by
\* setEnabled(true), has completed with status Ready, every installed
\* component instance carries the orchestrator's listeners.
C36_ReinitializedComponentsListened ==
  (op.name = "initDone" /\ op.arg \in {"updateConfig", "setEnabled"} /\ status = "ready") =>
    \A i \in 1..NumComponents : Listened(Components[i])

\* no instance created after the constructor ever gets a listener
OnlyFirstInstancesListened ==
  /\ \A l \in listeners : l.instance = 1
  /\ \A i \in 1..NumComponents :
       components[Components[i]] = 2 => ~\E l \in listeners :
         l.component = Components[i] /\ l.instance = 2

\* the updates given to updateEmotionalPattern by a caller that passes any
\* Partial<EmotionalPattern>: another confidence, the id of the first pattern
\* added, a createdAt of the caller's
IdentityUpdates == {[confidence |-> 7], [id |-> 1], [createdAt |-> 9]}

\* a profile whose patterns, MaxStore at a time, are added, updated and
\* removed, each change saved before the next call
IdentityNext ==
  \/ \E p \in StorePatterns :
       /\ saves = <<>>
       /\ Len(fingerprint) < MaxStore
       /\ uuids <= MaxStore
       /\ AddEmotionalPattern(p)
  \/ \E id \in PatternIds, u \in IdentityUpdates :
       saves = <<>> /\ UpdateEmotionalPattern(id, u)
  \/ \E id \in PatternIds : saves = <<>> /\ RemoveEmotionalPattern(id)
  \/ SaveResolves

IdentitySpec == Init /\ [][IdentityNext]_vars

\* no two patterns of the fingerprint have the same id
PatternIdsUnique ==
  \A i, j \in 1..Len(fingerprint) : fingerprint[i].id = fingerprint[j].id => i = j

\* C39: after any sequence of addPattern, updatePattern with any partial
\* update and removePattern no two patterns of the fingerprint have the same
\* id, and updatePattern changes neither the id nor the createdAt of the
\* pattern it updates
C39_PatternIdentity ==
  /\ []PatternIdsUnique
  /\ [][\A id \in PatternIds, u \in IdentityUpdates :
          LET patternIndex == FindIndex(fingerprint, id)
          IN (patternIndex # 0 /\ UpdateEmotionalPattern(id, u)) =>
               /\ fingerprint'[patternIndex].id = fingerprint[patternIndex].id
               /\ fingerprint'[patternIndex].createdAt = fingerprint[patternIndex].createdAt]_vars

\* what does hold: the ids that addEmotionalPattern gives are all different,
\* so without an update that carries an id no two patterns share one
AddedIdsDiffer ==
  [][PatternIdsUnique /\ op'.name # "updateEmotionalPattern" => PatternIdsUnique']_vars

\* stores constructed one after the other for the same user over the same
\* storage, each given patterns while or after its constructor's loadProfile
\* waits, as time passes; a store is constructed when the one before has
\* nothing under way
RaceNext ==
  \/ saves = <<>> /\ loading = NoLoad /\ NewGenesisProfile
  \/ LoadResolves
  \/ \E p \in StorePatterns :
       saves = <<>> /\ uuids < MaxStore /\ AddEmotionalPattern(p)
  \/ SaveResolves
  \/ Tick

RaceSpec == Init /\ [][RaceNext]_vars

\* the pattern that addEmotionalPattern was given last is in the sequence
HasLastAdded(patterns) == \E i \in 1..Len(patterns) : patterns[i].id = uuids

\* C37: when the constructor's loadProfile and the addPattern called after the
\* construction, with its saveProfile, have both finished, in whatever order
\* storage.get and storage.set resolved, the pattern added is in the
\* fingerprint in memory and in the stored blob, and the profile in memory is
\* the stored one
C37_AddedPatternKept ==
  (loading = NoLoad /\ saves = <<>> /\ uuids > 0) =>
    /\ HasLastAdded(fingerprint)
    /\ persisted # NoBlob
    /\ HasLastAdded(persisted.body.emotionalFingerprint)
    /\ WholeProfile = persisted.body

\* what does hold: when storage.get resolves with a stored profile, the
\* fingerprint in memory becomes the stored one, whatever was added since
\* the construction
LoadReplacesFingerprint ==
  [][(loading.pending /\ loading.stored # NoBlob /\ ~loading'.pending) =>
       fingerprint' = loading.stored.body.emotionalFingerprint]_vars

\* stores constructed one after the other for the same user over the same
\* storage; each is given patterns and privacy settings once its constructor's
\* loadProfile has finished, and a store is constructed when the one before
\* has nothing under way
ReloadNext ==
  \/ saves = <<>> /\ loading = NoLoad /\ NewGenesisProfile
  \/ LoadResolves
  \/ \E p \in StorePatterns :
       saves = <<>> /\ loading = NoLoad /\ uuids < MaxStore /\ AddEmotionalPattern(p)
  \/ \E s \in PrivacyUpdates : saves = <<>> /\ loading = NoLoad /\ UpdatePrivacySettings(s)
  \/ SaveResolves

ReloadSpec == Init /\ [][ReloadNext]_vars

\* C38: a store constructed for the same user over a storage that holds a
\* saved profile loads a profile equal to the saved one and emits no
\* PROFILE_LOAD_ERROR, whether the profile was saved with encryptData true or
\* after encryptData had been set to false
C38_RoundTrip ==
  (op.name = "loadProfile" /\ op.arg.stored # NoBlob) =>
    /\ op.arg.outcome = "profile_loaded"
    /\ WholeProfile = op.arg.stored.body

\* what does hold: a profile saved with encryptData true is loaded as saved
EncryptedRoundTrip ==
  (op.name = "loadProfile" /\ op.arg.stored.format = "base64") =>
    /\ op.arg.outcome = "profile_loaded"
    /\ WholeProfile = op.arg.stored.body

\* a profile saved with encryptData true has been loaded
EncryptedLoaded == op.name = "loadProfile" /\ op.arg.stored.format = "base64"

====
